---- MODULE Spec2Model ----
(***************************************************************************)
(* Live Chat Overlay: the server's fan-out and state-synchronisation core. *)
(*                                                                         *)
(*   clientManager   (src/src/websocket/clientManager.js)                  *)
(*   messageHandlers (src/src/websocket/messageHandlers.js)                *)
(*   configManager   (src/README.md, lines 461-629)                        *)
(*   server          (src/README.md, lines 384-458)                        *)
(*                                                                         *)
(* JavaScript objects are functions from key strings to values.  The       *)
(* nested `platforms` object is kept in a heap (platformsHeap) and the     *)
(* document holds its address, because configManager mutates it in place   *)
(* and getConfig() copies only the top level.  Volumes are in hundredths   *)
(* (0.5 is 50, the unit of the control panel's slider).                    *)
(***************************************************************************)
EXTENDS Integers, Sequences, FiniteSets, TLC

\* Bounds of the model: the sockets the server accepts, and the steps
\* (connections, inbound frames, transport events) of a run.
MaxSessions == 2
MaxSteps == 4

\* Bounds of the lookup-cache runs: the minutes the clock covers and the
\* lookup requests that arrive in a run.
MaxMinutes == 6
MaxRequests == 2

\* The length in milliseconds of the short step of the clock.
MomentMs == 400

\* Bound of the page-side runs: the timers (setTimeout, setInterval) a page
\* creates in a run.
MaxTimers == 8

\* Bounds of the runs of the page's socket clients: the WebSockets the
\* Twitch client creates in a run, and those the page's connection to the
\* server creates.
MaxSockets == 12
MaxConnections == 4

\* Bounds of the display queue's runs: the messages added in a run, and the
\* largest maxMessages a configuration update sets.
MaxArrivals == 8
MaxLimit == 3

\* Bounds of the runs of the page's platform clients: the clients the page
\* constructs in a run, and the timers a YouTube client sets in such a run.
MaxClients == 2
MaxClientTimers == 1

VARIABLES
  config,         \* the loaded config.js (never changes after start-up)
  currentConfig,  \* configManager: the runtime document (top level)
  platformsHeap,  \* address -> platforms object (shared by reference)
  clients,        \* clientManager: the Set of sockets, in insertion order
  readyState,     \* per socket: "NONE" (not accepted yet), "OPEN", "CLOSING", "CLOSED"
  sendThrows,     \* per socket: does ws.send throw on this transport
  inbox,          \* per socket: the payloads ws.send has accepted, in order
  snapshot,       \* a value returned by getConfig() and held by a caller
  last,           \* what the last handler run did (history variable)
  issued,         \* the messages passed to broadcast so far, in call order
                  \* (history variable)
  listening,      \* is the HTTP server still accepting TCP connections
  accepted,       \* once it is not: the sockets of the pages that saw them
                  \* close while it was, the pages that can have a TCP
                  \* connection of their own accepted and not yet upgraded
  forwarded,      \* per socket: the ids of the chat messages its overlay's
                  \* platform client has sent to the server (history variable)
  cache,          \* LiveStreamCache: the Map, key -> [data, timestamp],
                  \* each entry with its rank in the Map's insertion order
  now,            \* Date.now(), in milliseconds
  requests,       \* lookup requests: not arrived yet (idle), awaiting the
                  \* YouTube API (fetching), or answered (done)
  apiCalls,       \* per channel, the number of external API calls made so
                  \* far and the time of the latest (history variable)
  lastLookup,     \* what the last cache or lookup step did (history variable)
  twitchRead,     \* per socket: the chat messages the Twitch client of the
                  \* overlay page behind it has read, each with the number
                  \* of payloads the socket had delivered before it
  resumes,        \* per socket: the earlier socket of the page behind it,
                  \* 0 when the page had none
  heard,          \* per socket: the number of payloads it had delivered
                  \* when the page behind it saw it close, -1 before that
  nSteps,         \* number of steps taken so far (bounds the exploration)
  yt,             \* a YouTubeChatClient of the overlay page: its fields, the
                  \* page's pending timers, the position of its async
                  \* functions, and what its last step did
  tw,             \* a TwitchChatClient of the overlay page: its fields, its
                  \* sockets and reconnect timers, what its last step did
  ows,            \* the overlay page's connection to the server: the
                  \* module's ws, its sockets and reconnect timers
  page,           \* the overlay page's own variables: youtubeClient,
                  \* twitchClient, its configuration, the YouTube clients
                  \* it has replaced, and what its last step did
  mq              \* the overlay page's MessageQueue: container, queue, and
                  \* the elements added so far

vars == <<config, currentConfig, platformsHeap, clients, readyState,
          sendThrows, inbox, snapshot, last, issued, forwarded,
          listening, accepted, twitchRead, resumes, heard, nSteps,
          cache, now, requests, apiCalls, lastLookup,
          yt, tw, ows, page, mq>>

\* The state of the WebSocket server, and that of the lookup cache
serverVars == <<config, currentConfig, platformsHeap, clients, readyState,
                sendThrows, inbox, snapshot, last, issued, forwarded,
                listening, accepted, twitchRead, resumes, heard,
                nSteps>>

cacheVars == <<cache, now, requests, apiCalls, lastLookup>>

\* The state of the overlay page's own components
pageVars == <<yt, tw, ows, page, mq>>

Session == 1..MaxSessions

----------------------------------------------------------------------------
\* JavaScript object helpers

EmptyObj == [k \in {} |-> ""]

\* obj[k] is a truthy string: present and non-empty
Truthy(obj, k) == k \in DOMAIN obj /\ obj[k] # ""

\* A value of a key that clients send strings and numbers under: its type
\* and its text
StringValue(s) == [typeof |-> "string", text |-> s]
NumberValue(s) == [typeof |-> "number", text |-> s]

\* if (v): the empty string and 0 are falsy
JsTruthy(v) == IF v.typeof = "string" THEN v.text # "" ELSE v.text # "0"

\* { ...a, ...b }
Spread(a, b) ==
  [k \in DOMAIN a \cup DOMAIN b |-> IF k \in DOMAIN b THEN b[k] ELSE a[k]]

\* obj.k = v (creates the property when absent)
SetProp(obj, k, v) ==
  [j \in DOMAIN obj \cup {k} |-> IF j = k THEN v ELSE obj[j]]

SeqToSet(s) == {s[i] : i \in 1..Len(s)}

----------------------------------------------------------------------------
\* config.js as loaded at start-up

ExampleConfig ==
  [apiKey |-> "YOUR_API_KEY_HERE", defaultVideoId |-> "",
   defaultChannel |-> "YOUR_TWITCH_CHANNEL_HERE", soundVolume |-> 50,
   maxMessages |-> 6]

ConfigFiles ==
  { ExampleConfig,
    [ExampleConfig EXCEPT !.apiKey = "AIzaSyB", !.defaultChannel = ""] }

\* let currentConfig = { platforms: {...}, theme: 'neon', ... }
InitialPlatforms(cfg) ==
  [youtube |-> [enabled |-> FALSE, videoId |-> cfg.defaultVideoId],
   twitch  |-> [enabled |-> FALSE, channelId |-> cfg.defaultChannel]]

InitialConfig(cfg, addr) ==
  [platforms |-> addr,
   theme |-> "neon",
   maxMessages |-> cfg.maxMessages,
   volume |-> cfg.soundVolume,
   customCSS |-> StringValue(""),
   youtubeApiKey |-> cfg.apiKey,
   twitchDefaultChannel |-> cfg.defaultChannel]

----------------------------------------------------------------------------
\* configManager

\* getConfig(): return { ...currentConfig } -- a copy of the top level only;
\* the copy's `platforms` is the same address as the document's.
getConfig(doc) == [k \in DOMAIN doc |-> doc[k]]

\* The addresses still referenced by the document or by a held snapshot.
Live(doc, snap) ==
  {doc["platforms"]} \cup
  (IF snap.held /\ "platforms" \in DOMAIN snap.top
   THEN {snap.top["platforms"]} ELSE {})

\* A fresh object's address.
NewAddr(heap) == CHOOSE a \in 0..Cardinality(DOMAIN heap) : a \notin DOMAIN heap

\* Drop the objects nothing references any more.
Collect(heap, doc, snap) == [a \in Live(doc, snap) |-> heap[a]]

\* updateConfig merging a supplied `platforms` key by key into the existing
\* platforms object
updateConfigDeepMerge(doc, heap, hasData, updates) ==
  LET a == NewAddr(heap)
      hasP == hasData /\ "platforms" \in DOMAIN updates
      upd == IF hasP THEN SetProp(updates, "platforms", a) ELSE updates
  IN [doc |-> IF hasData THEN Spread(doc, upd) ELSE doc,
      heap |-> IF hasP
               THEN SetProp(heap, a, Spread(heap[doc["platforms"]],
                                            updates["platforms"]))
               ELSE heap,
      threw |-> ~hasData]

\* updateConfig spreading in the other order, { ...updates, ...currentConfig }
updateConfigKeepsOld(doc, heap, hasData, updates) ==
  [doc |-> IF hasData THEN Spread(updates, doc) ELSE doc,
   heap |-> heap,
   threw |-> ~hasData]

\* updateConfig(updates): currentConfig = { ...currentConfig, ...updates };
\* console.log(Object.keys(updates)) throws on a missing `updates`, after
\* the assignment.  A supplied `platforms` is a freshly parsed object.
updateConfig(doc, heap, hasData, updates) ==
  LET a == NewAddr(heap)
      hasP == hasData /\ "platforms" \in DOMAIN updates
      upd == IF hasP THEN SetProp(updates, "platforms", a) ELSE updates
  IN [doc |-> IF hasData THEN Spread(doc, upd) ELSE doc,
      heap |-> IF hasP THEN SetProp(heap, a, updates["platforms"]) ELSE heap,
      threw |-> ~hasData]

Enabled(P, p) == "enabled" \in DOMAIN P[p] /\ P[p]["enabled"] = TRUE

\* getActiveConnections(): reads platforms.youtube.enabled, then
\* platforms.twitch.enabled; a missing entry is a TypeError.
getActiveConnections(P) ==
  IF "youtube" \notin DOMAIN P \/ "twitch" \notin DOMAIN P
  THEN [threw |-> TRUE, active |-> <<>>]
  ELSE [threw |-> FALSE,
        active |-> (IF Enabled(P, "youtube") THEN <<"YouTube">> ELSE <<>>)
                   \o (IF Enabled(P, "twitch") THEN <<"Twitch">> ELSE <<>>)]

\* isMultistreamActive(): getActiveConnections().length > 1
isMultistreamActive(P) ==
  LET a == getActiveConnections(P)
  IN [threw |-> a.threw, value |-> ~a.threw /\ Len(a.active) > 1]

IdKey(p) == IF p = "youtube" THEN "videoId" ELSE "channelId"

\* platforms[p].enabled = e; platforms[p][idKey] = id
SetPlatform(P, p, e, id) ==
  SetProp(P, p, SetProp(SetProp(P[p], "enabled", e), IdKey(p), id))

\* connectPlatform without the test that the identifier is non-empty
connectPlatformNoIdCheck(P, data) ==
  LET platform == IF "platform" \in DOMAIN data THEN data["platform"] ELSE ""
      hit == IF platform \in {"youtube", "twitch"} THEN platform ELSE ""
      id == IF hit # "" /\ IdKey(hit) \in DOMAIN data THEN data[IdKey(hit)] ELSE ""
  IN IF hit = "" THEN [P |-> P, threw |-> getActiveConnections(P).threw]
     ELSE IF hit \notin DOMAIN P THEN [P |-> P, threw |-> TRUE]
     ELSE LET Q == SetPlatform(P, hit, TRUE, id)
          IN [P |-> Q, threw |-> getActiveConnections(Q).threw]

\* connectPlatform(platform, connectionData) on the platforms object P:
\* the object after the call and whether the call threw.
connectPlatform(P, data) ==
  LET platform == IF "platform" \in DOMAIN data THEN data["platform"] ELSE ""
      hit == IF platform = "youtube" /\ Truthy(data, "videoId") THEN "youtube"
             ELSE IF platform = "twitch" /\ Truthy(data, "channelId") THEN "twitch"
             ELSE ""
  IN IF hit = "" THEN [P |-> P, threw |-> getActiveConnections(P).threw]
     ELSE IF hit \notin DOMAIN P THEN [P |-> P, threw |-> TRUE]
     ELSE LET Q == SetPlatform(P, hit, TRUE, data[IdKey(hit)])
          IN [P |-> Q, threw |-> getActiveConnections(Q).threw]

\* disconnectPlatform flipping `enabled` instead of clearing it
disconnectPlatformToggle(P, platform) ==
  IF platform = ""
  THEN IF "youtube" \notin DOMAIN P THEN [P |-> P, threw |-> TRUE]
       ELSE LET Q == SetPlatform(P, "youtube", ~Enabled(P, "youtube"), "")
            IN IF "twitch" \notin DOMAIN P THEN [P |-> Q, threw |-> TRUE]
               ELSE [P |-> SetPlatform(Q, "twitch", ~Enabled(P, "twitch"), ""),
                     threw |-> FALSE]
  ELSE IF platform \in {"youtube", "twitch"}
  THEN IF platform \notin DOMAIN P THEN [P |-> P, threw |-> TRUE]
       ELSE [P |-> SetPlatform(P, platform, ~Enabled(P, platform), ""),
             threw |-> FALSE]
  ELSE [P |-> P, threw |-> FALSE]

\* disconnectPlatform(platform): platform "" stands for null.
disconnectPlatform(P, platform) ==
  IF platform = ""
  THEN IF "youtube" \notin DOMAIN P THEN [P |-> P, threw |-> TRUE]
       ELSE LET Q == SetPlatform(P, "youtube", FALSE, "")
            IN IF "twitch" \notin DOMAIN P THEN [P |-> Q, threw |-> TRUE]
               ELSE [P |-> SetPlatform(Q, "twitch", FALSE, ""), threw |-> FALSE]
  ELSE IF platform \in {"youtube", "twitch"}
  THEN IF platform \notin DOMAIN P THEN [P |-> P, threw |-> TRUE]
       ELSE [P |-> SetPlatform(P, platform, FALSE, ""), threw |-> FALSE]
  ELSE [P |-> P, threw |-> FALSE]

----------------------------------------------------------------------------
\* clientManager

\* JSON.stringify of a document: the nested platforms object is written out
\* by value.
SerializeDoc(doc, heap) ==
  [k \in DOMAIN doc |-> IF k = "platforms" THEN heap[doc[k]] ELSE doc[k]]

Message(type, data) == [type |-> type, data |-> data]

\* clients.add(client)
addClient(cs, s) == IF s \in SeqToSet(cs) THEN cs ELSE Append(cs, s)

\* clients.delete(client)
\* removing by position: splice(indexOf(client), 1) takes the last element
\* away when the client is not in the list
removeClientSplice(cs, s) ==
  IF s \in SeqToSet(cs) THEN SelectSeq(cs, LAMBDA c : c # s)
  ELSE SubSeq(cs, 1, Len(cs) - 1)

removeClient(cs, s) == SelectSeq(cs, LAMBDA c : c # s)

\* Position in the iteration at which client.send first throws
\* (Len(cs) + 1 when none does).
\* Position of the first element of cs in `bad`, or Len(cs) when none is
FirstIn(cs, bad) ==
  IF \E i \in 1..Len(cs) : cs[i] \in bad
  THEN CHOOSE i \in 1..Len(cs) :
         cs[i] \in bad /\ \A j \in 1..(i - 1) : cs[j] \notin bad
  ELSE Len(cs)

FirstThrow(cs, rs, st) ==
  LET bad == {i \in 1..Len(cs) : rs[cs[i]] = "OPEN" /\ st[cs[i]]}
  IN IF bad = {} THEN Len(cs) + 1
     ELSE CHOOSE i \in bad : \A j \in bad : i <= j

\* broadcast whose payload overtakes what the session was sent before
broadcastOvertakes(cs, rs, st, box, message) ==
  LET k == FirstThrow(cs, rs, st)
      invoked == {cs[i] : i \in {j \in 1..Len(cs) : j <= k /\ rs[cs[j]] = "OPEN"}}
      delivered == {cs[i] : i \in {j \in 1..Len(cs) : j < k /\ rs[cs[j]] = "OPEN"}}
  IN [inbox |-> [s \in DOMAIN box |->
                   IF s \in delivered
                   THEN <<[via |-> "broadcast", msg |-> message]>> \o box[s]
                   ELSE box[s]],
      invoked |-> invoked,
      delivered |-> delivered,
      threw |-> k <= Len(cs)]

\* broadcast(data): clients.forEach(c => { if (c.readyState === OPEN)
\* c.send(message) }) with no try/catch round the send: an exception ends
\* the iteration and leaves broadcast.
broadcast(cs, rs, st, box, message) ==
  LET k == FirstThrow(cs, rs, st)
      invoked == {cs[i] : i \in {j \in 1..Len(cs) : j <= k /\ rs[cs[j]] = "OPEN"}}
      delivered == {cs[i] : i \in {j \in 1..Len(cs) : j < k /\ rs[cs[j]] = "OPEN"}}
  IN [inbox |-> [s \in DOMAIN box |->
                   IF s \in delivered
                   THEN Append(box[s], [via |-> "broadcast", msg |-> message])
                   ELSE box[s]],
      invoked |-> invoked,
      delivered |-> delivered,
      threw |-> k <= Len(cs)]

\* sendToClient with the readyState test inverted
sendToClientInverted(rs, st, box, s, message) ==
  IF rs[s] # "OPEN"
  THEN [inbox |-> [box EXCEPT ![s] =
                     Append(@, [via |-> "unicast", msg |-> message])],
        sent |-> TRUE, threw |-> FALSE]
  ELSE [inbox |-> box, sent |-> FALSE, threw |-> FALSE]

\* sendToClient(client, data)
sendToClient(rs, st, box, s, message) ==
  IF rs[s] = "OPEN"
  THEN IF st[s]
       THEN [inbox |-> box, sent |-> FALSE, threw |-> TRUE]
       ELSE [inbox |-> [box EXCEPT ![s] =
                          Append(@, [via |-> "unicast", msg |-> message])],
             sent |-> TRUE, threw |-> FALSE]
  ELSE [inbox |-> box, sent |-> FALSE, threw |-> FALSE]

----------------------------------------------------------------------------
\* Inbound frames.  A frame is unparseable text, the JSON value null, or a
\* JSON object with a type and (perhaps) a data property.

Garbage == [kind |-> "garbage", type |-> "", hasData |-> FALSE, data |-> EmptyObj]
JsonNull == [kind |-> "null", type |-> "", hasData |-> FALSE, data |-> EmptyObj]
Envelope(t, d) == [kind |-> "object", type |-> t, hasData |-> TRUE, data |-> d]
EnvelopeNoData(t) ==
  [kind |-> "object", type |-> t, hasData |-> FALSE, data |-> EmptyObj]
NoFrame == [kind |-> "none", type |-> "", hasData |-> FALSE, data |-> EmptyObj]

BadPair ==
  [youtube |-> [enabled |-> TRUE, videoId |-> ""],
   twitch |-> [enabled |-> FALSE, channelId |-> "somechannel"]]
OnlyYoutube == [youtube |-> [enabled |-> TRUE, videoId |-> "abc123"]]

ConfigUpdates ==
  << [theme |-> "minimal"],
     [maxMessages |-> 3],
     [customCSS |-> StringValue(".x{}")],
     [customCSS |-> NumberValue("5")],
     [volume |-> 50],
     [volume |-> 150],
     [animationSpeed |-> 2],
     [youtubeApiKey |-> "", theme |-> "neon"],
     [platforms |-> EmptyObj],
     [platforms |-> BadPair],
     [platforms |-> OnlyYoutube] >>

ConnectData ==
  << [platform |-> "youtube", videoId |-> "abc123"],
     [platform |-> "youtube", videoId |-> ""],
     [platform |-> "twitch", channelId |-> "foo"],
     [platform |-> "twitch", videoId |-> "abc123"],
     [platform |-> "kick", channelId |-> "foo"],
     EmptyObj >>

DisconnectData ==
  << EmptyObj,
     [platform |-> "youtube"],
     [platform |-> "twitch"],
     [platform |-> "kick"] >>

\* The test message of the control panel (uiManager.js sendTestMessage): it
\* has no id
TestMessage ==
  [username |-> "TestUser", text |-> "This is a test message!",
   avatar |-> [isNull |-> TRUE], platform |-> "youtube",
   usernameColor |-> "#3498db", isModerator |-> FALSE,
   isSuperchat |-> FALSE, amount |-> [isNull |-> TRUE], badges |-> <<>>,
   timestamp |-> 1]

\* A message a platform client forwards, and the test message
ChatData ==
  << [id |-> "m1", username |-> "alice", text |-> "hello", platform |-> "twitch"],
     TestMessage >>

Frames(type, datas) ==
  {Envelope(type, datas[i]) : i \in 1..Len(datas)} \cup {EnvelopeNoData(type)}

----------------------------------------------------------------------------
\* messageHandlers.  Each handler yields the document and heap it leaves,
\* the argument of its broadcast call (out: empty when it makes none) and
\* whether it threw.

Handled(doc, heap, out, threw) ==
  [doc |-> doc, heap |-> heap, out |-> out, threw |-> threw]

ConfigMessage(doc, heap) == Message("config", SerializeDoc(getConfig(doc), heap))

\* handleConfigUpdate broadcasting the update it was given, not the document
handleConfigUpdateEchoesUpdate(doc, heap, f) ==
  LET u == updateConfig(doc, heap, f.hasData, f.data)
  IN IF u.threw THEN Handled(u.doc, u.heap, <<>>, TRUE)
     ELSE Handled(u.doc, u.heap, <<Message("config", f.data)>>, FALSE)

\* handleConfigUpdate(configUpdate)
handleConfigUpdate(doc, heap, f) ==
  LET u == updateConfig(doc, heap, f.hasData, f.data)
  IN IF u.threw THEN Handled(u.doc, u.heap, <<>>, TRUE)
     ELSE Handled(u.doc, u.heap, <<ConfigMessage(u.doc, u.heap)>>, FALSE)

\* handleChatMessage(messageData): console.log reads messageData.platform
\* first, so a missing payload throws.
handleChatMessage(doc, heap, f) ==
  IF ~f.hasData THEN Handled(doc, heap, <<>>, TRUE)
  ELSE Handled(doc, heap, <<Message("chat-message", f.data)>>, FALSE)

\* handlePlatformConnect broadcasting only when the connect changed something
handlePlatformConnectSilent(doc, heap, f) ==
  IF ~f.hasData THEN Handled(doc, heap, <<>>, TRUE)
  ELSE LET a == doc["platforms"]
           r == connectPlatform(heap[a], f.data)
           h == [heap EXCEPT ![a] = r.P]
       IN IF r.threw THEN Handled(doc, h, <<>>, TRUE)
          ELSE IF r.P = heap[a] THEN Handled(doc, h, <<>>, FALSE)
          ELSE Handled(doc, h, <<ConfigMessage(doc, h)>>, FALSE)

\* handlePlatformConnect(connectionData):
\* const { platform } = connectionData throws on a missing payload.
handlePlatformConnect(doc, heap, f) ==
  IF ~f.hasData THEN Handled(doc, heap, <<>>, TRUE)
  ELSE LET a == doc["platforms"]
           r == connectPlatform(heap[a], f.data)
           h == [heap EXCEPT ![a] = r.P]
       IN IF r.threw THEN Handled(doc, h, <<>>, TRUE)
          ELSE Handled(doc, h, <<ConfigMessage(doc, h)>>, FALSE)

\* handlePlatformDisconnect(disconnectData):
\* const platform = disconnectData?.platform || null
handlePlatformDisconnect(doc, heap, f) ==
  LET platform == IF f.hasData /\ Truthy(f.data, "platform")
                  THEN f.data["platform"] ELSE ""
      a == doc["platforms"]
      r == disconnectPlatform(heap[a], platform)
      h == [heap EXCEPT ![a] = r.P]
  IN IF r.threw THEN Handled(doc, h, <<>>, TRUE)
     ELSE Handled(doc, h, <<ConfigMessage(doc, h)>>, FALSE)

handleTestSound(doc, heap) ==
  Handled(doc, heap, <<Message("test-sound", EmptyObj)>>, FALSE)

\* The switch with its default case falling through to the test-sound case
DispatchFallsThrough(doc, heap, f) ==
  IF f.kind # "object" THEN Handled(doc, heap, <<>>, TRUE)
  ELSE IF f.type = "config" THEN handleConfigUpdate(doc, heap, f)
  ELSE IF f.type = "chat-message" THEN handleChatMessage(doc, heap, f)
  ELSE IF f.type = "connect" THEN handlePlatformConnect(doc, heap, f)
  ELSE IF f.type = "disconnect" THEN handlePlatformDisconnect(doc, heap, f)
  ELSE handleTestSound(doc, heap)

\* handleMessage's switch, inside its try block
Dispatch(doc, heap, f) ==
  IF f.kind # "object" THEN Handled(doc, heap, <<>>, TRUE)
  ELSE IF f.type = "config" THEN handleConfigUpdate(doc, heap, f)
  ELSE IF f.type = "chat-message" THEN handleChatMessage(doc, heap, f)
  ELSE IF f.type = "connect" THEN handlePlatformConnect(doc, heap, f)
  ELSE IF f.type = "disconnect" THEN handlePlatformDisconnect(doc, heap, f)
  ELSE IF f.type = "test-sound" THEN handleTestSound(doc, heap)
  ELSE Handled(doc, heap, <<>>, FALSE)

OpenClients == {s \in SeqToSet(clients) : readyState[s] = "OPEN"}

Idle ==
  [op |-> "idle", session |-> 0, frame |-> NoFrame, out |-> <<>>,
   openBefore |-> {}, invoked |-> {}, delivered |-> {},
   bthrew |-> FALSE, caught |-> FALSE, escaped |-> FALSE]

Record(op, s, f, out, invoked, delivered, bthrew, caught) ==
  [op |-> op, session |-> s, frame |-> f, out |-> out,
   openBefore |-> OpenClients, invoked |-> invoked, delivered |-> delivered,
   bthrew |-> bthrew, caught |-> caught, escaped |-> FALSE]

\* YouTubeChatClient.sendToOverlay: an overlay's YouTube client sends each
\* chat message it reads to the server on the overlay's own socket.  `sent`
\* records the ids per socket; the control panel's test messages have none.
sendToOverlay(sent, s, f) ==
  IF f.type = "chat-message" /\ f.hasData /\ "id" \in DOMAIN f.data
  THEN [sent EXCEPT ![s] = Append(@, f.data["id"])]
  ELSE sent

\* handleMessage without its try/catch: what is thrown inside reaches the
\* process, whose uncaughtException handler shuts the server down and
\* closes every session.
handleMessageUncaught(s, f) ==
  /\ nSteps < MaxSteps
  /\ readyState[s] \in {"OPEN", "CLOSING"}
  /\ LET h == Dispatch(currentConfig, platformsHeap, f)
         b == IF h.out = <<>>
              THEN [inbox |-> inbox, invoked |-> {}, delivered |-> {},
                    threw |-> FALSE]
              ELSE broadcast(clients, readyState, sendThrows, inbox, h.out[1])
         thrown == h.threw \/ b.threw
     IN /\ currentConfig' = h.doc
        /\ platformsHeap' = Collect(h.heap, h.doc, snapshot)
        /\ inbox' = b.inbox
        /\ issued' = issued \o h.out
        /\ last' = [Record("message", s, f, h.out, b.invoked, b.delivered,
                           b.threw, FALSE) EXCEPT !.escaped = thrown]
        /\ clients' = IF thrown THEN <<>> ELSE clients
        /\ readyState' = IF thrown
                         THEN [t \in Session |->
                                 IF readyState[t] = "OPEN" THEN "CLOSING"
                                 ELSE readyState[t]]
                         ELSE readyState
  /\ nSteps' = nSteps + 1
  /\ UNCHANGED <<cacheVars, pageVars>>
  /\ forwarded' = sendToOverlay(forwarded, s, f)
  /\ UNCHANGED <<listening, accepted, twitchRead, resumes, heard>>
  /\ UNCHANGED <<config, sendThrows, snapshot>>

\* handleMessage(ws, message): the whole handler, its broadcast included.
\* Everything thrown inside is caught by its try/catch.
handleMessage(s, f) ==
  /\ nSteps < MaxSteps
  /\ readyState[s] \in {"OPEN", "CLOSING"}
  /\ LET h == Dispatch(currentConfig, platformsHeap, f)
         b == IF h.out = <<>>
              THEN [inbox |-> inbox, invoked |-> {}, delivered |-> {},
                    threw |-> FALSE]
              ELSE broadcast(clients, readyState, sendThrows, inbox, h.out[1])
     IN /\ currentConfig' = h.doc
        /\ platformsHeap' = Collect(h.heap, h.doc, snapshot)
        /\ inbox' = b.inbox
        /\ issued' = issued \o h.out
        /\ last' = Record("message", s, f, h.out, b.invoked, b.delivered,
                          b.threw, h.threw \/ b.threw)
  /\ nSteps' = nSteps + 1
  /\ UNCHANGED <<cacheVars, pageVars>>
  /\ forwarded' = sendToOverlay(forwarded, s, f)
  /\ UNCHANGED <<listening, accepted, twitchRead, resumes, heard>>
  /\ UNCHANGED <<config, clients, readyState, sendThrows, snapshot>>

\* The frames a session may send, by message type
ConfigFrames == Frames("config", ConfigUpdates)
ChatFrames == Frames("chat-message", ChatData)
ConnectFrames == Frames("connect", ConnectData)
DisconnectFrames == Frames("disconnect", DisconnectData)
TestSoundFrame == Envelope("test-sound", EmptyObj)
UnknownTypeFrame == Envelope("bogus", EmptyObj)
UnparseableFrames == {Garbage, JsonNull}

\* ws.on('message') of a socket that can still deliver one
Receiving(s) == nSteps < MaxSteps /\ readyState[s] \in {"OPEN", "CLOSING"}

OnConfig(s) == Receiving(s) /\ \E f \in ConfigFrames : handleMessage(s, f)
OnChatMessage(s) == Receiving(s) /\ \E f \in ChatFrames : handleMessage(s, f)
OnConnect(s) == Receiving(s) /\ \E f \in ConnectFrames : handleMessage(s, f)
OnDisconnect(s) ==
  Receiving(s) /\ \E f \in DisconnectFrames : handleMessage(s, f)
OnTestSound(s) == handleMessage(s, TestSoundFrame)
OnUnknownType(s) == handleMessage(s, UnknownTypeFrame)
OnUnparseable(s) ==
  Receiving(s) /\ \E f \in UnparseableFrames : handleMessage(s, f)

----------------------------------------------------------------------------
\* server: wss.on('connection'), ws.on('close'), and the transport

\* The sockets whose page has seen them close and has not connected again:
\* overlayWebSocket.js onclose sets a timer that calls connect(onMessage),
\* whatever the server has seen of the close, and the page keeps its queue,
\* its configuration and its platform clients
Reconnecting ==
  {t \in Session : heard[t] >= 0 /\ \A u \in Session : resumes[u] # t}

\* The sockets whose page can be the one behind a new connection: while
\* the HTTP server accepts TCP connections every reconnecting page, after
\* server.close() those whose TCP connection it accepted before (a page
\* that sees its socket close later is refused)
Connecting ==
  IF listening THEN Reconnecting ELSE Reconnecting \cap accepted

\* The payloads of socket s that reached the page behind it
Received(s) == IF heard[s] >= 0 THEN heard[s] ELSE Len(inbox[s])

\* overlayWebSocket.js ws.onclose on the page behind socket s: the page's
\* end of the socket has closed (the server may still hold its end open and
\* go on sending), nothing reaches the page through it any more, and the
\* reconnect timer is set
PageOnClose(s) ==
  /\ nSteps < MaxSteps
  /\ readyState[s] # "NONE"
  /\ heard[s] < 0
  /\ heard' = [heard EXCEPT ![s] = Len(inbox[s])]
  /\ last' = Idle
  /\ nSteps' = nSteps + 1
  /\ UNCHANGED <<cacheVars, pageVars>>
  /\ UNCHANGED <<forwarded, listening, accepted, twitchRead, resumes>>
  /\ UNCHANGED <<config, issued, currentConfig, platformsHeap, clients,
                 readyState, sendThrows, inbox, snapshot>>

\* wss.on('connection') of a server that kept a history buffer and replayed
\* it to the new session after the config unicast
OnConnectionReplays(s) ==
  /\ nSteps < MaxSteps
  /\ readyState[s] = "NONE"
  /\ \A t \in Session : t < s => readyState[t] # "NONE"
  /\ LET rs == [readyState EXCEPT ![s] = "OPEN"]
         r == sendToClient(rs, sendThrows, inbox, s,
                           ConfigMessage(currentConfig, platformsHeap))
     IN /\ readyState' = rs
        /\ clients' = addClient(clients, s)
        /\ inbox' = [r.inbox EXCEPT ![s] =
                       @ \o [i \in 1..Len(issued) |->
                               [via |-> "broadcast", msg |-> issued[i]]]]
        /\ last' = [Record("connection", s, NoFrame, <<>>,
                           IF r.sent \/ r.threw THEN {s} ELSE {},
                           IF r.sent THEN {s} ELSE {}, FALSE, FALSE)
                    EXCEPT !.escaped = r.threw]
  /\ \E prev \in {0} \cup Connecting :
       resumes' = [resumes EXCEPT ![s] = prev]
  /\ nSteps' = nSteps + 1
  /\ UNCHANGED <<cacheVars, pageVars>>
  /\ UNCHANGED <<forwarded, listening, accepted, twitchRead, heard>>
  /\ UNCHANGED <<config, issued, currentConfig, platformsHeap, sendThrows, snapshot>>

\* wss.on('connection', ws => { addClient(ws); sendToClient(ws, {type:
\* 'config', data: getConfig()}); ... }).  Sockets are accepted in id order
\* and arrive open.  The page behind the socket is a page just loaded
\* (prev = 0) or one whose earlier socket prev has closed.  The handler
\* does not look at whether gracefulShutdown has run: a connection the
\* HTTP server accepted before server.close() is registered and sent the
\* configuration like any other.
OnConnection(s) ==
  /\ nSteps < MaxSteps
  /\ readyState[s] = "NONE"
  /\ \A t \in Session : t < s => readyState[t] # "NONE"
  /\ LET rs == [readyState EXCEPT ![s] = "OPEN"]
         r == sendToClient(rs, sendThrows, inbox, s,
                           ConfigMessage(currentConfig, platformsHeap))
     IN /\ readyState' = rs
        /\ clients' = addClient(clients, s)
        /\ inbox' = r.inbox
        /\ last' = [Record("connection", s, NoFrame, <<>>,
                           IF r.sent \/ r.threw THEN {s} ELSE {},
                           IF r.sent THEN {s} ELSE {}, FALSE, FALSE)
                    EXCEPT !.escaped = r.threw]
  /\ \E prev \in {0} \cup Connecting :
       resumes' = [resumes EXCEPT ![s] = prev]
  /\ nSteps' = nSteps + 1
  /\ UNCHANGED <<cacheVars, pageVars>>
  /\ UNCHANGED <<forwarded, listening, accepted, twitchRead, heard>>
  /\ UNCHANGED <<config, issued, currentConfig, platformsHeap, sendThrows, snapshot>>

\* closeAllConnections without the try/catch around client.close: the first
\* close that throws ends the forEach, and clients.clear() is not reached.
closeAllConnectionsUnguarded(cs, rs, bad) ==
  LET n == FirstIn(cs, bad)
      tried == {cs[i] : i \in 1..n}
  IN [clients |-> IF n > 0 /\ cs[n] \in bad THEN cs ELSE <<>>,
      readyState |-> [s \in Session |->
                        IF s \in tried \ bad /\ rs[s] = "OPEN"
                        THEN "CLOSING" ELSE rs[s]],
      attempted |-> tried,
      threw |-> n > 0 /\ cs[n] \in bad]

\* closeAllConnections(code, reason): close is called on every client, a
\* close that throws (those of `bad`) is caught, then the set is cleared.
\* close() takes an OPEN socket to CLOSING.
closeAllConnections(cs, rs, bad) ==
  [clients |-> <<>>,
   readyState |-> [s \in Session |->
                     IF s \in SeqToSet(cs) \ bad /\ rs[s] = "OPEN"
                     THEN "CLOSING" ELSE rs[s]],
   attempted |-> SeqToSet(cs),
   threw |-> FALSE]

\* gracefulShutdown(signal), on SIGTERM or SIGINT: every registered
\* connection is closed and server.close() makes the HTTP server stop
\* accepting TCP connections.  Nothing closes the WebSocket server, so a
\* TCP connection accepted before the call is still upgraded when its
\* request arrives: `accepted` keeps the pages that can have one.
gracefulShutdown(bad) ==
  /\ nSteps < MaxSteps
  /\ LET c == closeAllConnections(clients, readyState, bad)
         thrown == c.attempted \cap bad
     IN /\ clients' = c.clients
        /\ readyState' = c.readyState
        /\ last' = [Record("shutdown", 0, NoFrame, <<>>, c.attempted,
                           c.attempted \ bad, thrown # {},
                           thrown # {} /\ ~c.threw)
                    EXCEPT !.escaped = c.threw]
  /\ listening' = FALSE
  /\ accepted' = IF listening THEN Reconnecting ELSE accepted
  /\ nSteps' = nSteps + 1
  /\ UNCHANGED <<cacheVars, pageVars>>
  /\ UNCHANGED <<config, issued, currentConfig, platformsHeap, sendThrows,
                 inbox, snapshot, forwarded, twitchRead, resumes,
                 heard>>

\* Any of the registered sockets may be one whose close throws.
Shutdown == \E bad \in SUBSET SeqToSet(clients) : gracefulShutdown(bad)

\* The transport starts closing: the socket leaves the OPEN state before its
\* 'close' event is dispatched.
TransportClosing(s) ==
  /\ nSteps < MaxSteps
  /\ readyState[s] = "OPEN"
  /\ readyState' = [readyState EXCEPT ![s] = "CLOSING"]
  /\ last' = Idle
  /\ nSteps' = nSteps + 1
  /\ UNCHANGED <<cacheVars, pageVars>>
  /\ UNCHANGED <<forwarded, listening, accepted, twitchRead, resumes, heard>>
  /\ UNCHANGED <<config, issued, currentConfig, platformsHeap, clients, sendThrows,
                 inbox, snapshot>>

\* ws.on('close', () => removeClient(ws))
OnClose(s) ==
  /\ nSteps < MaxSteps
  /\ readyState[s] = "CLOSING"
  /\ readyState' = [readyState EXCEPT ![s] = "CLOSED"]
  /\ clients' = removeClient(clients, s)
  /\ last' = Record("close", s, NoFrame, <<>>, {}, {}, FALSE, FALSE)
  /\ nSteps' = nSteps + 1
  /\ UNCHANGED <<cacheVars, pageVars>>
  /\ UNCHANGED <<forwarded, listening, accepted, twitchRead, resumes, heard>>
  /\ UNCHANGED <<config, issued, currentConfig, platformsHeap, sendThrows, inbox,
                 snapshot>>

\* The transport of an open socket breaks so that ws.send throws from now on.
\* (A socket is handed to wss.on('connection') open and working: faults come
\* after it was accepted.)
TransportFault(s) ==
  /\ nSteps < MaxSteps
  /\ readyState[s] = "OPEN"
  /\ ~sendThrows[s]
  /\ sendThrows' = [sendThrows EXCEPT ![s] = TRUE]
  /\ last' = Idle
  /\ nSteps' = nSteps + 1
  /\ UNCHANGED <<cacheVars, pageVars>>
  /\ UNCHANGED <<forwarded, listening, accepted, twitchRead, resumes, heard>>
  /\ UNCHANGED <<config, issued, currentConfig, platformsHeap, clients, readyState,
                 inbox, snapshot>>

\* A caller keeps the value getConfig() returned (routes/system.js).
HoldSnapshot ==
  /\ nSteps < MaxSteps
  /\ ~snapshot.held
  /\ snapshot' = [held |-> TRUE, top |-> getConfig(currentConfig)]
  /\ last' = Idle
  /\ nSteps' = nSteps + 1
  /\ UNCHANGED <<cacheVars, pageVars>>
  /\ UNCHANGED <<forwarded, listening, accepted, twitchRead, resumes, heard>>
  /\ UNCHANGED <<config, issued, currentConfig, platformsHeap, clients, readyState,
                 sendThrows, inbox>>

----------------------------------------------------------------------------
\* LiveStreamCache and the live-stream lookup route

\* new LiveStreamCache(5): this.ttl = ttlMinutes * 60 * 1000
ttlMinutes == 5
MinuteMs == 60000
ttl == ttlMinutes * MinuteMs

\* JavaScript's null
Null == [isNull |-> TRUE]

\* this.cache = new Map()
EmptyMap == [k \in {} |-> Null]

Channel == {"UCa", "UCb"}
Video == {"v1", "v2"}
Request == 1..MaxRequests

\* Map.prototype.delete(key): the entries behind the one removed move up
mapDelete(c, key) ==
  IF key \notin DOMAIN c THEN c
  ELSE [k \in DOMAIN c \ {key} |->
          [c[k] EXCEPT !.rank = IF @ > c[key].rank THEN @ - 1 ELSE @]]

\* get(key) without the expiry test
getIgnoringAge(c, t, key) ==
  IF key \notin DOMAIN c THEN [cache |-> c, value |-> Null]
  ELSE [cache |-> c, value |-> c[key].data]

\* get(key) expiring an entry as soon as its age reaches the TTL
getExpiringAtTtl(c, t, key) ==
  IF key \notin DOMAIN c THEN [cache |-> c, value |-> Null]
  ELSE IF t - c[key].timestamp >= ttl
       THEN [cache |-> mapDelete(c, key), value |-> Null]
       ELSE [cache |-> c, value |-> c[key].data]

\* get(key) returning null for an expired entry but leaving it in the Map
getKeepingExpired(c, t, key) ==
  IF key \notin DOMAIN c THEN [cache |-> c, value |-> Null]
  ELSE IF t - c[key].timestamp > ttl
       THEN [cache |-> c, value |-> Null]
       ELSE [cache |-> c, value |-> c[key].data]

\* get(key) at time t: the Map afterwards and the value returned.
get(c, t, key) ==
  IF key \notin DOMAIN c THEN [cache |-> c, value |-> Null]
  ELSE LET age == t - c[key].timestamp
       IN IF age > ttl
          THEN [cache |-> mapDelete(c, key), value |-> Null]
          ELSE [cache |-> c, value |-> c[key].data]

\* set(key, data) at time t: a new key goes to the end of the Map, a key
\* already there keeps its place
set(c, t, key, data) ==
  SetProp(c, key, [data |-> data, timestamp |-> t,
                   rank |-> IF key \in DOMAIN c THEN c[key].rank
                            ELSE Cardinality(DOMAIN c) + 1])

\* clear()
clear(c) == EmptyMap

\* Math.round(ms / 1000): the nearest integer, a half going up
RoundSeconds(ms) == (ms + 500) \div 1000

\* getStats() at time t, the entries in the Map's order
getStats(c, t) ==
  [size |-> Cardinality(DOMAIN c),
   ttlMinutes |-> ttl \div 60000,
   entries |-> [i \in 1..Cardinality(DOMAIN c) |->
                  LET k == CHOOSE j \in DOMAIN c : c[j].rank = i
                  IN  [key |-> k,
                       ageSeconds |-> RoundSeconds(t - c[k].timestamp),
                       expiresInSeconds |->
                         RoundSeconds(ttl - (t - c[k].timestamp))]]]

\* delete(key): the Map afterwards and the value returned
delete(c, key) ==
  [cache |-> mapDelete(c, key), existed |-> key \in DOMAIN c]

\* has(key)
has(c, key) == key \in DOMAIN c

\* What `await fetch(searchUrl)` and `await response.json()` can yield: an
\* error document, no items, a live video, an item without its snippet, or
\* a rejected promise.
ApiError == [kind |-> "error", video |-> ""]
ApiNone == [kind |-> "none", video |-> ""]
ApiLive(v) == [kind |-> "live", video |-> v]
ApiMalformed == [kind |-> "malformed", video |-> "v1"]
ApiRejected == [kind |-> "rejected", video |-> ""]

ApiResponses ==
  {ApiError, ApiNone, ApiMalformed, ApiRejected} \cup {ApiLive(v) : v \in Video}

\* const result = { videoId, title, channelTitle, thumbnail }
Result(v) ==
  [videoId |-> v, title |-> "Live", channelTitle |-> "Channel",
   thumbnail |-> "thumb"]

IdleRequest == [pc |-> "idle", key |-> ""]
DoneRequest == [pc |-> "done", key |-> ""]

NoLookup ==
  [op |-> "none", req |-> 0, key |-> "", outcome |-> "", called |-> FALSE,
   removed |-> FALSE, response |-> EmptyObj]

\* `removed`: cache.get found the entry expired and deleted it
Looked(op, r, k, outcome, called, response) ==
  [op |-> op, req |-> r, key |-> k, outcome |-> outcome, called |-> called,
   removed |-> FALSE, response |-> response]

\* fetch(searchUrl) for channel k at time t, noted in the history a
Called(a, k, t) ==
  [j \in DOMAIN a \cup {k} |->
     IF j = k THEN [n |-> IF k \in DOMAIN a THEN a[k].n + 1 ELSE 1, at |-> t]
     ELSE a[j]]

\* The cache and the route as server.js leaves them at start-up
CacheStart ==
  /\ cache = EmptyMap
  /\ now = 0
  /\ requests = [r \in Request |-> IdleRequest]
  /\ apiCalls = [k \in {} |-> [n |-> 0, at |-> 0]]
  /\ lastLookup = NoLookup

\* router.get('/channel/:channelId/live'), up to its first await: the API
\* key test, cache.get, and on a miss the external call.
LookupStart(r, k) ==
  /\ requests[r].pc = "idle"
  /\ \A t \in Request : t < r => requests[t].pc # "idle"
  /\ IF config.apiKey = ""
     THEN /\ lastLookup' = Looked("start", r, k, "nokey", FALSE,
                                  [status |-> "error"])
          /\ requests' = [requests EXCEPT ![r] = DoneRequest]
          /\ UNCHANGED <<cache, apiCalls>>
     ELSE LET g == get(cache, now, k)
          IN IF g.value # Null
             THEN /\ cache' = g.cache
                  /\ lastLookup' =
                       Looked("start", r, k, "hit", FALSE,
                              Spread(Spread([status |-> "success"], g.value),
                                     [fromCache |-> TRUE]))
                  /\ requests' = [requests EXCEPT ![r] = DoneRequest]
                  /\ UNCHANGED apiCalls
             ELSE /\ cache' = g.cache
                  /\ apiCalls' = Called(apiCalls, k, now)
                  /\ requests' = [requests EXCEPT
                                    ![r] = [pc |-> "fetching", key |-> k]]
                  /\ lastLookup' =
                       [Looked("start", r, k, "miss", TRUE, EmptyObj)
                          EXCEPT !.removed = k \in DOMAIN cache]
  /\ UNCHANGED now
  /\ UNCHANGED <<serverVars, pageVars>>

\* The rest of the route with cache.set moved in front of the result tests
LookupFinishCachesAnything(r, resp) ==
  /\ requests[r].pc = "fetching"
  /\ LET k == requests[r].key
     IN /\ cache' = set(cache, now, k, Result(resp.video))
        /\ lastLookup' = Looked("finish", r, k, resp.kind, FALSE,
                                [status |-> "success"])
  /\ requests' = [requests EXCEPT ![r] = DoneRequest]
  /\ UNCHANGED <<now, apiCalls>>
  /\ UNCHANGED <<serverVars, pageVars>>

\* The rest of the route, from the API's answer on: an error document and
\* an empty item list are answered without caching, a live video is cached
\* and answered, anything thrown is answered with a 500.
LookupFinish(r, resp) ==
  /\ requests[r].pc = "fetching"
  /\ LET k == requests[r].key
     IN IF resp.kind = "live"
        THEN /\ cache' = set(cache, now, k, Result(resp.video))
             /\ lastLookup' =
                  Looked("finish", r, k, resp.kind, FALSE,
                         Spread(Spread([status |-> "success"], Result(resp.video)),
                                [fromCache |-> FALSE]))
        ELSE /\ cache' = cache
             /\ lastLookup' =
                  Looked("finish", r, k, resp.kind, FALSE,
                         IF resp.kind = "none"
                         THEN [status |-> "no_live_stream"]
                         ELSE [status |-> "error"])
  /\ requests' = [requests EXCEPT ![r] = DoneRequest]
  /\ UNCHANGED <<now, apiCalls>>
  /\ UNCHANGED <<serverVars, pageVars>>

\* router.get('/cache/stats')
CacheStats ==
  /\ lastLookup' = Looked("stats", 0, "", "", FALSE,
                          [status |-> "ok", cache |-> getStats(cache, now)])
  /\ UNCHANGED <<cache, now, requests, apiCalls>>
  /\ UNCHANGED <<serverVars, pageVars>>

\* router.post('/cache/clear')
CacheClear ==
  /\ cache' = clear(cache)
  /\ lastLookup' = Looked("clear", 0, "", "", FALSE, [status |-> "ok"])
  /\ UNCHANGED <<now, requests, apiCalls>>
  /\ UNCHANGED <<serverVars, pageVars>>

\* cache.delete(key), a method of the exported instance
CacheDelete(k) ==
  /\ cache' = delete(cache, k).cache
  /\ lastLookup' = Looked("delete", 0, k, "", FALSE,
                          [status |-> "ok", existed |-> delete(cache, k).existed])
  /\ UNCHANGED <<now, requests, apiCalls>>
  /\ UNCHANGED <<serverVars, pageVars>>

\* The steps of the clock (Date.now()): a minute, or a moment of less than
\* half a second, the span within which Math.round still rounds a remaining
\* life to zero.
TickSteps == {MinuteMs, MomentMs}

\* Time passes: whole minutes, and then once in a run, when a TTL has gone
\* by and so an entry can be at its expiry, a moment.
Tick(d) ==
  /\ now < MaxMinutes * MinuteMs
  /\ now % MinuteMs = 0
  /\ d = MomentMs => now >= ttl
  /\ now' = now + d
  /\ lastLookup' = NoLookup
  /\ UNCHANGED <<cache, requests, apiCalls>>
  /\ UNCHANGED <<serverVars, pageVars>>

----------------------------------------------------------------------------
(***************************************************************************)
(* The overlay page's YouTube client (src/public/js/lib/youtube.js).       *)
(*                                                                         *)
(* The client object and the page's timers are one record.  null and       *)
(* undefined fields that the code only tests for truthiness are "" (for    *)
(* strings) and 0 (for timer handles, which are positive).  An async       *)
(* function runs up to its `await` in one step and from the answer to its  *)
(* end in another; `pc` is the await it is parked at.  `did` is what the   *)
(* step that has just run did (history), `called` is whether the page has  *)
(* called disconnect() (history), `streak` is the number of 429 answers    *)
(* since the last successful fetch (history).                              *)
(***************************************************************************)
maxRetries == 5

Silent(op) ==
  [op |-> op, sent |-> 0, scheduled |-> FALSE, connected |-> FALSE,
   simulation |-> FALSE]

\* new YouTubeChatClient(videoId)
YouTubeStart ==
  [apiKey |-> "", pollingInterval |-> 0, nextPageToken |-> "",
   liveChatId |-> "", isConnected |-> FALSE, simulationMode |-> TRUE,
   rateLimitRetryCount |-> 0,
   timers |-> [i \in {} |-> "timeout"], timerSeq |-> 0,
   pc |-> "new", called |-> FALSE, streak |-> 0, did |-> Silent("new")]

\* A step of the client begins: nothing done yet, no function parked
Begin(c, op) == [c EXCEPT !.did = Silent(op)]

\* setTimeout / setInterval: a new pending timer, its handle c.timerSeq + 1
setTimer(c, kind) ==
  LET id == c.timerSeq + 1
  IN  [c EXCEPT !.timerSeq = id,
                !.timers = [i \in DOMAIN c.timers \cup {id} |->
                              IF i = id THEN kind ELSE c.timers[i]]]

\* clearTimeout(id): timeouts and intervals share one pool of handles
clearTimeout(c, id) ==
  [c EXCEPT !.timers = [i \in DOMAIN c.timers \ {id} |-> c.timers[i]]]

setApiKey(c, apiKey) ==
  [c EXCEPT !.apiKey = apiKey, !.simulationMode = FALSE]

\* disconnect() leaving rateLimitRetryCount as it is
ytDisconnectKeepsCount(c) ==
  LET c1 == IF c.pollingInterval # 0
            THEN [clearTimeout(c, c.pollingInterval)
                    EXCEPT !.pollingInterval = 0]
            ELSE c
  IN  [c1 EXCEPT !.isConnected = FALSE, !.liveChatId = "",
                 !.nextPageToken = ""]

\* disconnect()
ytDisconnect(c) ==
  LET c1 == IF c.pollingInterval # 0
            THEN [clearTimeout(c, c.pollingInterval)
                    EXCEPT !.pollingInterval = 0]
            ELSE c
  IN  [c1 EXCEPT !.isConnected = FALSE, !.liveChatId = "",
                 !.nextPageToken = "", !.rateLimitRetryCount = 0]

startSimulation(c) ==
  LET c1 == setTimer(c, "interval")
  IN  [c1 EXCEPT !.simulationMode = TRUE, !.isConnected = TRUE,
                 !.pollingInterval = c1.timerSeq,
                 !.did.simulation = TRUE, !.did.connected = TRUE]

scheduleNextPoll(c) ==
  LET c1 == IF c.pollingInterval # 0
            THEN clearTimeout(c, c.pollingInterval) ELSE c
      c2 == setTimer(c1, "timeout")
  IN  [c2 EXCEPT !.pollingInterval = c2.timerSeq, !.did.scheduled = TRUE]

\* processMessage and sendToOverlay: the message goes to the server when
\* the page's socket is open
processMessage(c, open) ==
  IF open THEN [c EXCEPT !.did.sent = @ + 1] ELSE c

\* fetchMessages up to `await fetch(url)`
fetchMessages(c) ==
  IF c.liveChatId = "" \/ c.apiKey = "" THEN c
  ELSE [c EXCEPT !.pc = "fetchMessages"]

\* The answers of the liveChat/messages request: an HTTP status and, for
\* 200, a body
FetchOutcomes ==
  {[kind |-> k, items |-> 0, token |-> ""] :
      k \in {"429", "5xx", "other", "quota", "bodyError", "exception"}}
  \cup {[kind |-> "ok", items |-> n, token |-> t] :
          n \in {0, 1}, t \in {"", "t"}}

\* fetchMessages without the reset of rateLimitRetryCount on success
fetchMessagesNoReset(c, resp, open) ==
  LET c0 == [c EXCEPT !.pc = "idle"]
  IN  CASE resp.kind = "429" ->
             LET c1 == [c0 EXCEPT !.rateLimitRetryCount = @ + 1]
             IN  IF c1.rateLimitRetryCount <= maxRetries
                 THEN scheduleNextPoll(c1)
                 ELSE startSimulation(ytDisconnect(c1))
        [] resp.kind = "5xx" -> scheduleNextPoll(c0)
        [] resp.kind = "other" -> c0
        [] resp.kind = "quota" -> startSimulation(ytDisconnect(c0))
        [] resp.kind = "bodyError" -> scheduleNextPoll(c0)
        [] resp.kind = "exception" -> scheduleNextPoll(c0)
        [] resp.kind = "ok" ->
             LET c2 == IF resp.items > 0 THEN processMessage(c0, open)
                       ELSE c0
                 c3 == [c2 EXCEPT !.nextPageToken = resp.token]
             IN  scheduleNextPoll(c3)

\* fetchMessages from the answer of `await fetch(url)` to its end
fetchMessagesDone(c, resp, open) ==
  LET c0 == [c EXCEPT !.pc = "idle"]
  IN  CASE resp.kind = "429" ->
             LET c1 == [c0 EXCEPT !.rateLimitRetryCount = @ + 1]
             IN  IF c1.rateLimitRetryCount <= maxRetries
                 THEN scheduleNextPoll(c1)
                 ELSE startSimulation(ytDisconnect(c1))
        [] resp.kind = "5xx" -> scheduleNextPoll(c0)
        [] resp.kind = "other" -> c0
        [] resp.kind = "quota" -> startSimulation(ytDisconnect(c0))
        [] resp.kind = "bodyError" -> scheduleNextPoll(c0)
        [] resp.kind = "exception" -> scheduleNextPoll(c0)
        [] resp.kind = "ok" ->
             LET c1 == [c0 EXCEPT !.rateLimitRetryCount = 0]
                 c2 == IF resp.items > 0 THEN processMessage(c1, open)
                       ELSE c1
                 c3 == [c2 EXCEPT !.nextPageToken = resp.token]
             IN  scheduleNextPoll(c3)

\* The answers of the videos request of fetchLiveChatId
LiveChatIdOutcomes == {"found", "none", "error", "exception"}

\* fetchLiveChatId from the answer of its request to its end
fetchLiveChatIdDone(c, outcome) ==
  IF outcome = "found" THEN [c EXCEPT !.liveChatId = "chat"] ELSE c

\* connectToRealChat from the return of `await this.fetchLiveChatId()`
connectToRealChatDone(c, outcome) ==
  LET c1 == fetchLiveChatIdDone([c EXCEPT !.pc = "idle"], outcome)
  IN  IF c1.liveChatId # ""
      THEN fetchMessages([c1 EXCEPT !.isConnected = TRUE,
                                    !.did.connected = TRUE])
      ELSE startSimulation(c1)

\* connect(): with a key, connectToRealChat up to its await
ytConnect(c) ==
  IF c.apiKey # "" THEN [c EXCEPT !.pc = "fetchLiveChatId"]
  ELSE startSimulation([c EXCEPT !.pc = "idle"])

\* Everything but the YouTube client
notYt == <<serverVars, cacheVars, tw, ows, page, mq>>

\* Everything but the Twitch client
notTw == <<serverVars, cacheVars, yt, ows, page, mq>>

\* Everything but the page's connection to the server
notOws == <<serverVars, cacheVars, yt, tw, page, mq>>

\* Everything but the page's platform clients
notPage == <<serverVars, cacheVars, yt, tw, ows, mq>>

\* Everything but the page's display queue
notMq == <<serverVars, cacheVars, yt, tw, ows, page>>

\* connectYouTube configures the new client with the page's API key
YtSetApiKey ==
  /\ yt.pc = "new" /\ yt.apiKey = ""
  /\ yt' = setApiKey(Begin(yt, "setApiKey"), "key")
  /\ UNCHANGED notYt

YtConnect ==
  /\ yt.pc = "new"
  /\ yt.timerSeq < MaxTimers
  /\ yt' = ytConnect(Begin(yt, "connect"))
  /\ UNCHANGED notYt

\* The videos request is answered
YtLiveChatIdAnswered(outcome) ==
  /\ yt.pc = "fetchLiveChatId"
  /\ yt.timerSeq < MaxTimers
  /\ yt' = connectToRealChatDone(Begin(yt, "fetchLiveChatId"), outcome)
  /\ UNCHANGED notYt

\* The liveChat/messages request is answered
YtMessagesAnswered(resp, open) ==
  /\ yt.pc = "fetchMessages"
  /\ yt.timerSeq < MaxTimers
  /\ yt' = [fetchMessagesDone(Begin(yt, "fetchMessages"), resp, open)
              EXCEPT !.streak = IF resp.kind = "429" THEN yt.streak + 1
                                ELSE IF resp.kind = "ok" THEN 0
                                ELSE yt.streak]
  /\ UNCHANGED notYt

\* A pending setTimeout of scheduleNextPoll fires: fetchMessages()
YtPollTimer(id) ==
  /\ id \in DOMAIN yt.timers /\ yt.timers[id] = "timeout"
  /\ yt.pc = "idle"
  /\ yt' = fetchMessages(clearTimeout(Begin(yt, "poll"), id))
  /\ UNCHANGED notYt

\* The setInterval of startSimulation fires; gen is Math.random() > 0.7
YtSimulationTimer(id, gen, open) ==
  /\ id \in DOMAIN yt.timers /\ yt.timers[id] = "interval"
  /\ yt' = IF gen THEN processMessage(Begin(yt, "simulate"), open)
           ELSE Begin(yt, "simulate")
  /\ UNCHANGED notYt

\* The page calls disconnect() (disconnectYouTube, connectYouTube)
YtDisconnect ==
  /\ yt.pc # "new"
  /\ yt' = [ytDisconnect(Begin(yt, "disconnect")) EXCEPT !.called = TRUE]
  /\ UNCHANGED notYt

----------------------------------------------------------------------------
(***************************************************************************)
(* The overlay page's Twitch client (src/public/js/lib/twitch.js, the      *)
(* class declared at lines 29-449).                                        *)
(*                                                                         *)
(* The client object, the WebSockets it has created and its pending        *)
(* reconnect timers are one record.  A null channelName is "", a null ws   *)
(* is 0 (sockets are numbered from 1); a socket whose close event has been *)
(* delivered is forgotten.  `did` is what the step that has just run did,  *)
(* `called` whether the page has called disconnect(), `closes` the number  *)
(* of close events since the last open event (history).                    *)
(***************************************************************************)
maxReconnectAttempts == 10

TwSilent(op) == [op |-> op, opened |-> FALSE, scheduled |-> FALSE]

\* new TwitchChatClient(channelName)
TwitchStart ==
  [channelName |-> "chan", ws |-> 0, connected |-> FALSE,
   reconnectAttempts |-> 0,
   sockets |-> [i \in {} |-> "CLOSED"], socketSeq |-> 0, timers |-> 0,
   pc |-> "new", called |-> FALSE, closes |-> 0, did |-> TwSilent("new")]

\* connect(): this.ws = new WebSocket(ircUrl), with the client's handlers
twConnect(c) ==
  LET id == c.socketSeq + 1
  IN  [c EXCEPT !.socketSeq = id, !.ws = id,
                !.sockets = [i \in DOMAIN c.sockets \cup {id} |->
                               IF i = id THEN "CONNECTING"
                               ELSE c.sockets[i]],
                !.did.opened = TRUE]

handleOpen(c) ==
  [c EXCEPT !.connected = TRUE, !.reconnectAttempts = 0]

\* handleClose reconnecting while the count is at most the maximum
handleCloseOneMore(c) ==
  LET c1 == [c EXCEPT !.connected = FALSE]
  IN  IF c1.channelName # ""
         /\ c1.reconnectAttempts <= maxReconnectAttempts
      THEN [c1 EXCEPT !.reconnectAttempts = @ + 1, !.timers = @ + 1,
                      !.did.scheduled = TRUE]
      ELSE c1

\* handleClose()
handleClose(c) ==
  LET c1 == [c EXCEPT !.connected = FALSE]
  IN  IF c1.channelName # ""
         /\ c1.reconnectAttempts < maxReconnectAttempts
      THEN [c1 EXCEPT !.reconnectAttempts = @ + 1, !.timers = @ + 1,
                      !.did.scheduled = TRUE]
      ELSE c1

\* The callback of handleClose's setTimeout
reconnectTimer(c) ==
  LET c1 == [c EXCEPT !.timers = @ - 1]
  IN  IF c1.channelName # "" THEN twConnect(c1) ELSE c1

\* ws.close(): a socket not yet closed starts closing
wsClose(sockets, id) ==
  IF id \in DOMAIN sockets
  THEN [sockets EXCEPT ![id] = "CLOSING"]
  ELSE sockets

\* disconnect() as the declaration at lines 460-691 has it: channelName
\* stays
twDisconnectKeepsChannel(c) ==
  LET c1 == IF c.ws # 0
            THEN [c EXCEPT !.sockets = wsClose(c.sockets, c.ws), !.ws = 0]
            ELSE c
  IN  [c1 EXCEPT !.connected = FALSE]

\* disconnect(): channelName = null, then the socket is closed
twDisconnect(c) ==
  LET c0 == [c EXCEPT !.channelName = ""]
      c1 == IF c0.ws # 0
            THEN [c0 EXCEPT !.sockets = wsClose(c0.sockets, c0.ws), !.ws = 0]
            ELSE c0
  IN  [c1 EXCEPT !.connected = FALSE]

TwBegin(c, op) == [c EXCEPT !.did = TwSilent(op)]

Forget(sockets, id) == [i \in DOMAIN sockets \ {id} |-> sockets[i]]

\* connectTwitch: the page connects the client it has created
TwConnect ==
  /\ tw.pc = "new"
  /\ tw' = twConnect([TwBegin(tw, "connect") EXCEPT !.pc = "run"])
  /\ UNCHANGED notTw

\* The open event of a socket
TwOpened(id) ==
  /\ id \in DOMAIN tw.sockets /\ tw.sockets[id] = "CONNECTING"
  /\ tw' = [handleOpen(TwBegin(tw, "open"))
              EXCEPT !.sockets[id] = "OPEN", !.closes = 0]
  /\ UNCHANGED notTw

\* The close event of a socket: the connection failed, the server or the
\* network closed it, or close() was called on it
TwClosed(id) ==
  /\ id \in DOMAIN tw.sockets
  /\ tw' = [handleClose(TwBegin(tw, "close"))
              EXCEPT !.sockets = Forget(tw.sockets, id),
                     !.closes = @ + 1]
  /\ UNCHANGED notTw

\* A pending reconnect timer fires
TwReconnectTimer ==
  /\ tw.timers > 0
  /\ tw.socketSeq < MaxSockets
  /\ tw' = reconnectTimer(TwBegin(tw, "timer"))
  /\ UNCHANGED notTw

\* The page calls disconnect() (disconnectTwitch, connectTwitch)
TwDisconnect ==
  /\ tw.pc # "new"
  /\ tw' = [twDisconnect(TwBegin(tw, "disconnect")) EXCEPT !.called = TRUE]
  /\ UNCHANGED notTw

----------------------------------------------------------------------------
(***************************************************************************)
(* The overlay page's connection to the server                             *)
(* (src/public/js/modules/overlayWebSocket.js).                            *)
(*                                                                         *)
(* The module's `ws` (0 for null), the WebSockets it has created and its   *)
(* pending reconnect timers are one record.  `called` is whether the page  *)
(* has called disconnect() and not connect() since, `did` what the step    *)
(* that has just run did (history).                                        *)
(***************************************************************************)
OverlaySocketStart ==
  [ws |-> 0, sockets |-> [i \in {} |-> "CLOSED"], socketSeq |-> 0,
   timers |-> 0, pc |-> "new", called |-> FALSE,
   did |-> [op |-> "new", opened |-> FALSE]]

\* connect(onMessage): ws = new WebSocket(wsUrl), with the four handlers
owConnect(m) ==
  LET id == m.socketSeq + 1
  IN  [m EXCEPT !.socketSeq = id, !.ws = id,
                !.sockets = [i \in DOMAIN m.sockets \cup {id} |->
                               IF i = id THEN "CONNECTING"
                               ELSE m.sockets[i]],
                !.did.opened = TRUE]

\* ws.onclose: setTimeout(() => connect(onMessage), 3000)
owOnClose(m) == [m EXCEPT !.timers = @ + 1]

\* disconnect()
owDisconnect(m) ==
  IF m.ws # 0
  THEN [m EXCEPT !.sockets = wsClose(m.sockets, m.ws), !.ws = 0]
  ELSE m

OwBegin(m, op) == [m EXCEPT !.did = [op |-> op, opened |-> FALSE]]

\* The page calls connect(): at start-up, or again after a disconnect()
OwConnect ==
  /\ ows.pc = "new" \/ ows.called
  /\ ows.socketSeq < MaxConnections
  /\ ows' = [owConnect(OwBegin(ows, "connect"))
               EXCEPT !.pc = "run", !.called = FALSE]
  /\ UNCHANGED notOws

\* The open event of a socket: ws.onopen only logs
OwOpened(id) ==
  /\ id \in DOMAIN ows.sockets /\ ows.sockets[id] = "CONNECTING"
  /\ ows' = [OwBegin(ows, "open") EXCEPT !.sockets[id] = "OPEN"]
  /\ UNCHANGED notOws

\* The close event of a socket: the server or the network closed it, or
\* close() was called on it
OwClosed(id) ==
  /\ id \in DOMAIN ows.sockets
  /\ ows' = [owOnClose(OwBegin(ows, "close"))
               EXCEPT !.sockets = Forget(ows.sockets, id)]
  /\ UNCHANGED notOws

\* A pending reconnect timer fires: connect(onMessage)
OwReconnectTimer ==
  /\ ows.timers > 0
  /\ ows.socketSeq < MaxConnections
  /\ ows' = owConnect([OwBegin(ows, "timer") EXCEPT !.timers = @ - 1])
  /\ UNCHANGED notOws

\* The page calls disconnect()
OwDisconnect ==
  /\ ows.pc # "new"
  /\ ows' = [owDisconnect(OwBegin(ows, "disconnect")) EXCEPT !.called = TRUE]
  /\ UNCHANGED notOws

----------------------------------------------------------------------------
(***************************************************************************)
(* The overlay page's platform clients (src/public/js/overlay.js).         *)
(*                                                                         *)
(* `page` holds the module variables youtubeClient and twitchClient (a     *)
(* client is the identifier it was constructed with, as the constructor    *)
(* stored it), the configuration of configManager.js under the keys the    *)
(* page reads again, the YouTube clients it has replaced (`gone`), and     *)
(* what the last step of the page did: the processing of a `config`        *)
(* message, or an answer or a timer of a YouTube client.  An entry of a    *)
(* platforms object is a record with the identifier (videoId, channelId)   *)
(* as `id`; an entry the object does not have is Undefined.  A value of    *)
(* customCSS is a record of its type and its text.  applyTheme reads the   *)
(* stylesheet link of the page's document, which is taken to be there.     *)
(***************************************************************************)
NoClient == [isNull |-> TRUE]

Undefined == [present |-> FALSE, enabled |-> FALSE, id |-> ""]

Entry(enabled, id) == [present |-> TRUE, enabled |-> enabled, id |-> id]

VideoIds == {"", "abc", "xyz"}
ChannelIds == {"", "foo", "Foo"}

\* String.prototype.toLowerCase on the channel names of the model
toLowerCase(s) ==
  IF s = "Foo" THEN "foo"
  ELSE IF s = "YOUR_TWITCH_CHANNEL_HERE" THEN "your_twitch_channel_here"
  ELSE s

\* The platforms objects a `config` message carries
PlatformDocs ==
  {[youtube |-> y, twitch |-> t] :
     y \in {Undefined, Entry(FALSE, "")}
             \cup {Entry(TRUE, v) : v \in VideoIds},
     t \in {Undefined, Entry(FALSE, "")}
             \cup {Entry(TRUE, c) : c \in ChannelIds}}

\* The keys of its configuration the page reads again later
PageKeys == {"maxMessages", "youtubeApiKey", "customCSS"}

\* What a `config` message carries under those keys
SettingsDocs ==
  {EmptyObj, [youtubeApiKey |-> "key"],
   [customCSS |-> StringValue(".x{}")], [customCSS |-> NumberValue("5")]}
  \cup {[maxMessages |-> m] : m \in 0..MaxLimit}

NoPlatforms == [youtube |-> Undefined, twitch |-> Undefined]

\* The data of a `config` message, with or without a platforms object
ConfigDocs ==
  {[hasPlatforms |-> FALSE, platforms |-> NoPlatforms, settings |-> u] :
     u \in SettingsDocs}
  \cup {[hasPlatforms |-> TRUE, platforms |-> P, settings |-> u] :
          P \in PlatformDocs,
          u \in {EmptyObj, [customCSS |-> NumberValue("5")]}}

NoDoc == [hasPlatforms |-> FALSE, platforms |-> NoPlatforms,
          settings |-> EmptyObj]

\* What the step of the page that has just run did (history)
PageDid(op, doc) ==
  [op |-> op, doc |-> doc, created |-> {}, disconnected |-> {},
   threw |-> FALSE]

\* handleConfigUpdate(doc) begins
PageBegin(g, doc) == [g EXCEPT !.page.did = PageDid("config", doc)]

\* configManager.js: currentConfig = { ...defaultConfig }
defaultMaxMessages == 6

PageConfigStart ==
  [maxMessages |-> defaultMaxMessages, customCSS |-> StringValue("")]

\* overlay.js as loaded; `made` counts the clients constructed (history),
\* `gone` are the YouTube clients the page has replaced while they had a
\* request in flight or a timer pending
OverlayPageStart ==
  [youtubeClient |-> NoClient, twitchClient |-> NoClient,
   config |-> PageConfigStart, made |-> 0, gone |-> <<>>,
   did |-> PageDid("new", NoDoc)]

\* The display queue as the module is loaded (messageQueue.js); `arrived`
\* is every element passed to addMessage since the container exists,
\* `evicted` the number of elements the last addMessage removed (history).
MessageQueueStart ==
  [container |-> FALSE, queue |-> <<>>, arrived |-> <<>>, evicted |-> 0,
   did |-> "new"]

\* MessageQueue.addMessage refusing the new element when the queue is full
addMessageDropsNewest(queue, el, max) ==
  IF Len(queue) >= max THEN queue ELSE Append(queue, el)

\* MessageQueue.addMessage with a container: push, then shift while the
\* queue is too long
RECURSIVE Shift(_, _)
Shift(queue, max) ==
  IF Len(queue) > max /\ Len(queue) > 0 THEN Shift(Tail(queue), max) ELSE queue

addMessage(queue, el, max) == Shift(Append(queue, el), max)

\* MessageQueue.clearAll()
clearAll(m) == [m EXCEPT !.queue = <<>>, !.did = "clearAll"]

\* The `config` messages of the runs of the platform clients: those that
\* leave maxMessages alone
ClientDocs == {d \in ConfigDocs : "maxMessages" \notin DOMAIN d.settings}

\* new YouTubeChatClient(videoId) / new TwitchChatClient(channelName)
NewYouTube(videoId) == [isNull |-> FALSE, videoId |-> videoId]
NewTwitch(channelName) ==
  [isNull |-> FALSE, channelName |-> toLowerCase(channelName)]

\* The functions of overlay.js work on the whole page g: overlay.js's own
\* variables (g.page), the YouTube client and the Twitch client it made last
\* (g.yt, g.tw) and the display queue (g.mq).  A YouTube client the page
\* replaces has disconnect() called on it and lives on in g.page.gone when
\* an answer or a timer of its own is still to come; a timer handle is used
\* by the client that set it only, and each client numbers its own from the
\* handle it found.  A Twitch client the page replaces has closed its socket
\* and forgotten its channel: the close event and a pending reconnect timer
\* find no channel and do nothing, a closing socket delivers no message, and
\* the client is followed no further.

\* OverlayConfigManager.updateConfig(updates)
pageUpdateConfig(g, doc) ==
  [g EXCEPT !.page.config = Spread(@, doc.settings)]

\* OverlayConfigManager.applyConfig(): applyTheme and applyColors change
\* the document only; applyCustomCSS calls customCSS.trim() on a truthy
\* value, a TypeError when it is no string
applyConfig(g) ==
  LET customCSS == g.page.config["customCSS"]
  IN  IF JsTruthy(customCSS) /\ customCSS.typeof # "string"
      THEN [g EXCEPT !.page.did.threw = TRUE]
      ELSE g

\* An answer or a timer of the client is still to come
ytPending(c) ==
  c.pc \in {"fetchLiveChatId", "fetchMessages"} \/ DOMAIN c.timers # {}

connectYouTube(g, videoId) ==
  IF ~g.page.youtubeClient.isNull /\ g.page.youtubeClient.videoId = videoId
  THEN g
  ELSE LET old == IF g.page.youtubeClient.isNull THEN g.yt
                  ELSE [ytDisconnect(Begin(g.yt, "disconnect"))
                          EXCEPT !.called = TRUE]
           c1 == IF Truthy(g.page.config, "youtubeApiKey")
                 THEN setApiKey(YouTubeStart, g.page.config["youtubeApiKey"])
                 ELSE YouTubeStart
       IN  [g EXCEPT !.yt = ytConnect(Begin(c1, "connect")),
                     !.page.youtubeClient = NewYouTube(videoId),
                     !.page.gone = IF ytPending(old) THEN Append(@, old)
                                   ELSE @,
                     !.page.made = @ + 1,
                     !.page.did.created = @ \cup {"youtube"},
                     !.page.did.disconnected =
                        IF g.page.youtubeClient.isNull THEN @
                        ELSE @ \cup {"youtube"}]

disconnectYouTube(g) ==
  IF g.page.youtubeClient.isNull THEN g
  ELSE [g EXCEPT !.yt = [ytDisconnect(Begin(g.yt, "disconnect"))
                           EXCEPT !.called = TRUE],
                 !.page.youtubeClient = NoClient,
                 !.page.did.disconnected = @ \cup {"youtube"}]

connectTwitch(g, channelName) ==
  IF ~g.page.twitchClient.isNull
     /\ g.page.twitchClient.channelName = channelName
  THEN g
  ELSE LET c0 == [TwitchStart EXCEPT
                    !.channelName = toLowerCase(channelName),
                    !.socketSeq = g.tw.socketSeq, !.pc = "run"]
       IN  [g EXCEPT !.tw = twConnect(TwBegin(c0, "connect")),
                     !.page.twitchClient = NewTwitch(channelName),
                     !.page.made = @ + 1,
                     !.page.did.created = @ \cup {"twitch"},
                     !.page.did.disconnected =
                        IF g.page.twitchClient.isNull THEN @
                        ELSE @ \cup {"twitch"}]

disconnectTwitch(g) ==
  IF g.page.twitchClient.isNull THEN g
  ELSE [g EXCEPT !.tw = [twDisconnect(TwBegin(g.tw, "disconnect"))
                           EXCEPT !.called = TRUE],
                 !.page.twitchClient = NoClient,
                 !.page.did.disconnected = @ \cup {"twitch"}]

\* Reading .enabled of an entry the object does not have throws a
\* TypeError, which ends the function where it stands.
handlePlatformConnections(g, platforms) ==
  LET y == platforms.youtube
      t == platforms.twitch
      g1 == IF y.enabled /\ y.id # "" THEN connectYouTube(g, y.id)
            ELSE IF ~g.page.youtubeClient.isNull /\ ~y.enabled
                 THEN disconnectYouTube(g)
                 ELSE g
      g2 == IF t.enabled /\ t.id # "" THEN connectTwitch(g1, t.id)
            ELSE IF ~g1.page.twitchClient.isNull /\ ~t.enabled
                 THEN disconnectTwitch(g1)
                 ELSE g1
  IN  IF ~y.present THEN [g EXCEPT !.page.did.threw = TRUE]
      ELSE IF ~t.present THEN [g1 EXCEPT !.page.did.threw = TRUE]
      ELSE g2

\* handleConfigUpdate(configUpdate): the update is merged into the page's
\* configuration and applied, then the platform clients are brought in
\* line; what applyConfig throws ends the function
pageHandleConfigUpdate(g, doc) ==
  LET g1 == applyConfig(pageUpdateConfig(g, doc))
  IN  IF g1.page.did.threw THEN g1
      ELSE IF doc.hasPlatforms
           THEN handlePlatformConnections(g1, doc.platforms)
           ELSE g1

\* handleChatMessage(messageData): the element made of it goes to
\* MessageQueue.addMessage with the page's configuration; without a
\* container addMessage returns at once
pageHandleChatMessage(g, el) ==
  IF ~g.mq.container THEN [g EXCEPT !.mq.did = "ignored"]
  ELSE [g EXCEPT
          !.mq.queue = addMessage(@, el, g.page.config["maxMessages"]),
          !.mq.arrived = Append(@, el),
          !.mq.evicted =
             Len(g.mq.queue) + 1
               - Len(addMessage(g.mq.queue, el, g.page.config["maxMessages"])),
          !.mq.did = "addMessage"]

\* The page as it stands
ThePage == [page |-> page, yt |-> yt, tw |-> tw, mq |-> mq]

\* The page receives a `config` message; the run goes on while it has
\* constructed MaxClients clients at most
PageConfig(doc) ==
  /\ LET g == pageHandleConfigUpdate(PageBegin(ThePage, doc), doc)
     IN  /\ g.page.made <= MaxClients
         /\ page' = g.page /\ yt' = g.yt /\ tw' = g.tw /\ mq' = g.mq
  /\ UNCHANGED <<serverVars, cacheVars, ows>>

\* The answers of the two requests in the runs of the platform clients: a
\* live chat or none, and a message, a 429 or an exhausted quota
ClientOutcomes == {"found", "none"}
ClientAnswers ==
  {r \in FetchOutcomes :
     \/ r.kind \in {"429", "quota"}
     \/ r.kind = "ok" /\ r.items = 1 /\ r.token = "t"}

\* What a YouTube client becomes by the next answer or timer of its own:
\* the videos request answered, the messages request answered, the timeout
\* of scheduleNextPoll, the interval of startSimulation
ytSteps(c) ==
  {connectToRealChatDone(Begin(c, "fetchLiveChatId"), outcome) :
     outcome \in {o \in ClientOutcomes : c.pc = "fetchLiveChatId"}}
  \cup {[fetchMessagesDone(Begin(c, "fetchMessages"), x[1], x[2])
           EXCEPT !.streak = IF x[1].kind = "429" THEN c.streak + 1
                             ELSE IF x[1].kind = "ok" THEN 0
                             ELSE c.streak] :
          x \in {y \in ClientAnswers \X BOOLEAN : c.pc = "fetchMessages"}}
  \cup {fetchMessages(clearTimeout(Begin(c, "poll"), id)) :
          id \in {i \in DOMAIN c.timers :
                    c.timers[i] = "timeout" /\ c.pc = "idle"}}
  \cup {IF x[1] THEN processMessage(Begin(c, "simulate"), x[2])
        ELSE Begin(c, "simulate") :
          x \in {y \in BOOLEAN \X BOOLEAN :
                   \E i \in DOMAIN c.timers : c.timers[i] = "interval"}}

\* An answer or a timer of the client the page made last
YtClientStep ==
  /\ \E c \in ytSteps(yt) : c.timerSeq <= MaxClientTimers /\ yt' = c
  /\ page' = [page EXCEPT !.did = PageDid("client", NoDoc)]
  /\ UNCHANGED <<serverVars, cacheVars, tw, ows, mq>>

\* An answer or a timer of a client the page has replaced
YtReplacedStep(i) ==
  /\ i \in 1..Len(page.gone)
  /\ \E c \in ytSteps(page.gone[i]) :
       /\ c.timerSeq <= MaxClientTimers
       /\ page' = [page EXCEPT !.gone[i] = c,
                               !.did = PageDid("client", NoDoc)]
  /\ UNCHANGED notPage

----------------------------------------------------------------------------
(***************************************************************************)
(* The overlay page behind a socket of the server.  What it holds is what  *)
(* overlay.js has made of the payloads its sockets delivered and of the    *)
(* chat messages its own Twitch client read, in the order they came: when  *)
(* its socket closes the page connects again and goes on from where it     *)
(* was.  The document the page was loaded from has a #chat-container or    *)
(* has none (`found`): that is fixed when the page loads, and an input     *)
(* here.                                                                   *)
(***************************************************************************)

\* The page once overlay.js has run initialize(), before its socket opens
PageLoaded(found) ==
  [page |-> OverlayPageStart, yt |-> YouTubeStart, tw |-> TwitchStart,
   mq |-> [MessageQueueStart EXCEPT !.container = found,
                                    !.did = "initialize"]]

\* platforms[p] as handlePlatformConnections reads it
ToEntry(P, p) ==
  IF p \notin DOMAIN P THEN Undefined
  ELSE Entry(Enabled(P, p),
             IF IdKey(p) \in DOMAIN P[p] THEN P[p][IdKey(p)] ELSE "")

\* The data of a `config` message of the server as the page reads it
ToDoc(d) ==
  [hasPlatforms |-> "platforms" \in DOMAIN d,
   platforms |-> IF "platforms" \in DOMAIN d
                 THEN [youtube |-> ToEntry(d["platforms"], "youtube"),
                       twitch |-> ToEntry(d["platforms"], "twitch")]
                 ELSE NoPlatforms,
   settings |-> [k \in DOMAIN d \cap PageKeys |-> d[k]]]

\* overlay.js handleMessage(data): the switch on data.type
pageHandleMessage(g, data) ==
  IF data.type = "config"
  THEN pageHandleConfigUpdate(PageBegin(g, ToDoc(data.data)),
                              ToDoc(data.data))
  ELSE IF data.type = "chat-message"
  THEN pageHandleChatMessage(g, data.data)
  ELSE g

\* The page g after the first n payloads of box and the first k messages
\* of loc, a message of loc coming after the payloads its `after` counts
RECURSIVE PageAfter(_, _, _, _, _)
PageAfter(g, box, loc, n, k) ==
  IF n = 0 /\ k = 0 THEN g
  ELSE IF k > 0 /\ loc[k].after >= n
  THEN pageHandleChatMessage(PageAfter(g, box, loc, n, k - 1), loc[k].msg)
  ELSE pageHandleMessage(PageAfter(g, box, loc, n - 1, k), box[n].msg)

\* The overlay page on socket s: the page as loaded, or as its earlier
\* socket left it, after what came while s was its socket
RECURSIVE PageOf(_, _)
PageOf(s, found) ==
  PageAfter(IF resumes[s] = 0 THEN PageLoaded(found)
            ELSE PageOf(resumes[s], found),
            inbox[s], twitchRead[s], Received(s), Len(twitchRead[s]))

\* The display queue of the overlay on socket s
Displayed(s, found) == PageOf(s, found).mq.queue

\* The chat message parsePrivateMessage makes of the k-th PRIVMSG a page
\* reads: Twitch gives every message an id of its own
TwitchPrivmsg(k) ==
  [id |-> "tw-" \o ToString(k), username |-> "bob", text |-> "hi",
   platform |-> "twitch"]

\* The number of chat messages the Twitch clients of the page on socket s
\* have read since the page was loaded
RECURSIVE ReadSoFar(_)
ReadSoFar(s) ==
  Len(twitchRead[s]) + IF resumes[s] = 0 THEN 0 ELSE ReadSoFar(resumes[s])

\* The Twitch client of the page whose latest socket is s, its IRC socket
\* open, reads a PRIVMSG: parsePrivateMessage hands the message to
\* onMessage, which is the page's handleChatMessage; nothing is sent to the
\* server.  The page's socket to the server may be open or closed.
OnTwitchMessage(s) ==
  /\ nSteps < MaxSteps
  /\ readyState[s] # "NONE"
  /\ \A u \in Session : resumes[u] # s
  /\ \E found \in BOOLEAN : ~PageOf(s, found).page.twitchClient.isNull
  /\ twitchRead' = [twitchRead EXCEPT ![s] =
                      Append(@, [after |-> Received(s),
                                 msg |-> TwitchPrivmsg(ReadSoFar(s) + 1)])]
  /\ last' = Idle
  /\ nSteps' = nSteps + 1
  /\ UNCHANGED <<cacheVars, pageVars>>
  /\ UNCHANGED <<forwarded, listening, accepted, resumes, heard>>
  /\ UNCHANGED <<config, issued, currentConfig, platformsHeap, clients,
                 readyState, sendThrows, inbox, snapshot>>

\* The page with all its components as constructed
PageStart ==
  /\ mq = MessageQueueStart
  /\ page = OverlayPageStart
  /\ yt = YouTubeStart
  /\ tw = TwitchStart
  /\ ows = OverlaySocketStart

----------------------------------------------------------------------------

\* The server at start-up, its config.js being one of `files`
ServerStart(files) ==
  /\ config \in files
  /\ currentConfig = InitialConfig(config, 0)
  /\ platformsHeap = [a \in {0} |-> InitialPlatforms(config)]
  /\ clients = <<>>
  /\ readyState = [s \in Session |-> "NONE"]
  /\ sendThrows = [s \in Session |-> FALSE]
  /\ inbox = [s \in Session |-> <<>>]
  /\ snapshot = [held |-> FALSE, top |-> EmptyObj]
  /\ last = Idle
  /\ issued = <<>>
  /\ forwarded = [s \in Session |-> <<>>]
  /\ listening = TRUE
  /\ accepted = {}
  /\ twitchRead = [s \in Session |-> <<>>]
  /\ resumes = [s \in Session |-> 0]
  /\ heard = [s \in Session |-> -1]
  /\ nSteps = 0

Init == ServerStart(ConfigFiles) /\ CacheStart /\ PageStart

Next ==
  \/ \E s \in Session : OnConnection(s)
  \/ \E s \in Session : TransportClosing(s)
  \/ \E s \in Session : OnClose(s)
  \/ \E s \in Session : TransportFault(s)
  \/ \E s \in Session : OnConfig(s)
  \/ \E s \in Session : OnChatMessage(s)
  \/ \E s \in Session : OnConnect(s)
  \/ \E s \in Session : OnDisconnect(s)
  \/ \E s \in Session : OnTestSound(s)
  \/ \E s \in Session : OnUnknownType(s)
  \/ \E s \in Session : OnUnparseable(s)
  \/ \E s \in Session : OnTwitchMessage(s)
  \/ \E s \in Session : PageOnClose(s)
  \/ HoldSnapshot
  \/ Shutdown

Spec == Init /\ [][Next]_vars

\* The lookup route and the cache on their own, the WebSocket side at rest.
\* config.js may also be one without an API key.
CacheConfigFiles ==
  {ExampleConfig, [ExampleConfig EXCEPT !.apiKey = ""]}

CacheInit == ServerStart(CacheConfigFiles) /\ CacheStart /\ PageStart

CacheNext ==
  \/ \E r \in Request : \E k \in Channel : LookupStart(r, k)
  \/ \E r \in Request : \E resp \in ApiResponses : LookupFinish(r, resp)
  \/ CacheStats
  \/ CacheClear
  \/ \E k \in Channel : CacheDelete(k)
  \/ \E d \in TickSteps : Tick(d)

CacheSpec == CacheInit /\ [][CacheNext]_vars

\* The overlay page's components on their own, the server and the cache at
\* rest.
PageInit == ServerStart({ExampleConfig}) /\ CacheStart /\ PageStart

TimerId == 1..MaxTimers

YouTubeNext ==
  \/ YtSetApiKey
  \/ YtConnect
  \/ \E outcome \in LiveChatIdOutcomes : YtLiveChatIdAnswered(outcome)
  \/ \E resp \in FetchOutcomes : \E open \in BOOLEAN :
        YtMessagesAnswered(resp, open)
  \/ \E id \in TimerId : YtPollTimer(id)
  \/ \E id \in TimerId : \E gen \in BOOLEAN : \E open \in BOOLEAN :
        YtSimulationTimer(id, gen, open)
  \/ YtDisconnect

YouTubeSpec == PageInit /\ [][YouTubeNext]_vars

SocketId == 1..MaxSockets

TwitchNext ==
  \/ TwConnect
  \/ \E id \in SocketId : TwOpened(id)
  \/ \E id \in SocketId : TwClosed(id)
  \/ TwReconnectTimer
  \/ TwDisconnect

TwitchSpec == PageInit /\ [][TwitchNext]_vars

ConnectionId == 1..MaxConnections

OverlaySocketNext ==
  \/ OwConnect
  \/ \E id \in ConnectionId : OwOpened(id)
  \/ \E id \in ConnectionId : OwClosed(id)
  \/ OwReconnectTimer
  \/ OwDisconnect

OverlaySocketSpec == PageInit /\ [][OverlaySocketNext]_vars

PlatformClientsNext ==
  \/ \E doc \in ClientDocs : PageConfig(doc)
  \/ YtClientStep
  \/ \E i \in 1..MaxClients : YtReplacedStep(i)

PlatformClientsSpec == PageInit /\ [][PlatformClientsNext]_vars

----------------------------------------------------------------------------
\* Vocabulary of the properties

\* The platforms object the document refers to
Platforms == platformsHeap[currentConfig["platforms"]]

\* The document as a reader sees it
Document == SerializeDoc(currentConfig, platformsHeap)

\* The last step was a handler run that called broadcast
Broadcasting == last.op = "message" /\ last.out # <<>>

ValidConnectData(d) ==
  /\ "platform" \in DOMAIN d
  /\ \/ d["platform"] = "youtube" /\ Truthy(d, "videoId")
     \/ d["platform"] = "twitch" /\ Truthy(d, "channelId")

\* A connect frame with the identifier missing or empty, or the platform
\* name unrecognised
InvalidConnect(f) ==
  f.kind = "object" /\ f.type = "connect" /\ ~(f.hasData /\ ValidConnectData(f.data))

\* A config frame that supplies `platforms`
SuppliesPlatforms(f) ==
  f.kind = "object" /\ f.type = "config" /\ f.hasData /\ "platforms" \in DOMAIN f.data

\* enabled = true implies a non-empty identifier, for the entries present
EnabledHasId(P) ==
  \A p \in DOMAIN P \cap {"youtube", "twitch"} :
    Enabled(P, p) => Truthy(P[p], IdKey(p))

\* enabled = true iff the identifier is non-empty, for both platforms
EnabledIffId(P) ==
  \A p \in {"youtube", "twitch"} :
    p \in DOMAIN P /\ (Enabled(P, p) <=> Truthy(P[p], IdKey(p)))

ConfigEntries(s) ==
  {i \in 1..Len(inbox[s]) : inbox[s][i].msg.type = "config"}

----------------------------------------------------------------------------
\* C1: one broadcast(m) call invokes send exactly once on each open session
\* of the registry and on no other session, each time with the same payload.
\* (broadcast appends the one serialised payload per accepted send, so the
\* sessions invoked must be exactly the open ones.)
C1_BroadcastReachesEveryOpenSession ==
  Broadcasting =>
    /\ last.invoked = last.openBefore
    /\ \A s \in last.delivered :
         inbox[s][Len(inbox[s])] = [via |-> "broadcast", msg |-> last.out[1]]

\* C2: when the send to one session throws during broadcast(m), every other
\* open session still receives m exactly once and broadcast does not throw.
C2_SendFailureIsIsolated ==
  Broadcasting =>
    /\ ~last.bthrew
    /\ \A s \in last.openBefore :
         ~sendThrows[s] =>
           /\ s \in last.delivered
           /\ inbox[s][Len(inbox[s])] = [via |-> "broadcast", msg |-> last.out[1]]

\* C3: registering a session sends exactly one unicast config message, with
\* the current document, to that session and to no other, and it precedes
\* every broadcast the session receives.
C3_InitialSnapshotFirst ==
  /\ \A s \in Session :
       IF readyState[s] = "NONE" THEN inbox[s] = <<>>
       ELSE /\ Len(inbox[s]) >= 1
            /\ inbox[s][1].via = "unicast"
            /\ inbox[s][1].msg.type = "config"
            /\ \A i \in 2..Len(inbox[s]) : inbox[s][i].via = "broadcast"
  /\ last.op = "connection" =>
       inbox[last.session] =
         << [via |-> "unicast", msg |-> Message("config", Document)] >>

C3_Witness ==
  \E s \in Session :
    /\ Len(inbox[s]) >= 2
    /\ inbox[s][2].via = "broadcast"
    /\ \E t \in Session : t # s /\ Len(inbox[t]) = 1 /\ last.op = "connection"
                          /\ last.session = t

\* C4: every config message the server sends (the registration unicast and
\* the broadcasts after config, connect and disconnect events) carries the
\* complete current document, never only the update that triggered it.
C4_ConfigCarriesFullDocument ==
  /\ (Broadcasting /\ last.out[1].type = "config") =>
       /\ last.out[1].data = Document
       /\ DOMAIN InitialConfig(config, 0) \subseteq DOMAIN last.out[1].data
  /\ last.op = "connection" =>
       \A i \in ConfigEntries(last.session) :
         inbox[last.session][i].msg.data = Document

C4_Witness ==
  /\ Broadcasting
  /\ last.frame.type = "config"
  /\ last.frame.data = [theme |-> "minimal"]
  /\ last.delivered # {}
  /\ last.out[1].data["theme"] = "minimal"
  /\ last.out[1].data["volume"] = 50

\* C5 as stated: an invalid connect event results in no config broadcast to
\* any session.
C5_InvalidConnectNoBroadcast ==
  (last.op = "message" /\ InvalidConnect(last.frame)) => last.invoked = {}

\* C5 as amended: an invalid connect event leaves the document unchanged;
\* when its data is an object and the platforms object has both entries the
\* router still calls broadcast, with a config message carrying that
\* unchanged document, and otherwise it broadcasts nothing.
C5_InvalidConnectRebroadcastsUnchanged ==
  [][ (last'.op = "message" /\ InvalidConnect(last'.frame)) =>
        /\ currentConfig' = currentConfig
        /\ platformsHeap' = platformsHeap
        /\ last'.out =
             IF last'.frame.hasData /\ {"youtube", "twitch"} \subseteq DOMAIN Platforms
             THEN << Message("config", Document) >>
             ELSE <<>> ]_vars

C5_Witness ==
  /\ last.op = "message"
  /\ InvalidConnect(last.frame)
  /\ last.frame.hasData
  /\ last.out # <<>>
  /\ last.delivered # {}

\* C6 as stated: in every reachable state, for each platform, enabled is
\* true if and only if the platform's identifier is non-empty.
C6_EnabledIffIdentifier == EnabledIffId(Platforms)

\* C6 as amended: enabled = true implies a non-empty identifier in the
\* initial document, and every connect event, every disconnect event and
\* every config event that does not supply `platforms` preserves that.
C6_EnabledImpliesIdentifier ==
  /\ EnabledHasId(Platforms)
  /\ [][ (EnabledHasId(Platforms) /\ ~SuppliesPlatforms(last'.frame)) =>
           EnabledHasId(platformsHeap'[currentConfig'["platforms"]]) ]_vars

C6_Witness ==
  /\ last.op = "message"
  /\ last.frame.type = "connect"
  /\ "twitch" \in DOMAIN Platforms
  /\ Enabled(Platforms, "twitch")
  /\ Platforms["twitch"]["channelId"] = "foo"

\* C7: in every reachable state `platforms` has exactly the keys youtube and
\* twitch, whatever config (merge), connect and disconnect events have been
\* applied.
C7_ExactlyTwoPlatforms == DOMAIN Platforms = {"youtube", "twitch"}

\* What does hold: `platforms` has exactly the keys youtube and twitch in
\* the initial document, and every connect and disconnect event and every
\* config event that does not supply `platforms` leaves its key set as it
\* was; a config event that supplies `platforms` leaves exactly the supplied
\* object, whatever its keys (updateConfig spreads the update over the
\* document and looks at no key).
C7_PlatformKeysKept ==
  /\ DOMAIN Platforms = {"youtube", "twitch"}
  /\ [][ IF last'.op = "message" /\ SuppliesPlatforms(last'.frame)
         THEN platformsHeap'[currentConfig'["platforms"]] = last'.frame.data["platforms"]
         ELSE DOMAIN platformsHeap'[currentConfig'["platforms"]] = DOMAIN Platforms
       ]_vars

\* A connect event naming an unknown platform has just been handled and
\* `platforms` still has its two keys.
C7_UnknownPlatformRejected ==
  /\ last.op = "message"
  /\ last.frame.type = "connect"
  /\ last.frame.hasData
  /\ "platform" \in DOMAIN last.frame.data
  /\ last.frame.data["platform"] = "kick"
  /\ DOMAIN Platforms = {"youtube", "twitch"}

\* C8: in every reachable state the document's volume lies in [0,1]
\* (0..100 hundredths): a merge supplying a volume out of range is clamped.
C8_VolumeInRange ==
  currentConfig["volume"] >= 0 /\ currentConfig["volume"] <= 100

\* C9: a value returned by get() is independent of the store: later merge,
\* connectPlatform and disconnectPlatform transitions do not change it,
\* its nested platforms entries included.
C9_SnapshotIndependent ==
  [][ (snapshot.held /\ snapshot' = snapshot) =>
        SerializeDoc(snapshot'.top, platformsHeap') =
        SerializeDoc(snapshot.top, platformsHeap) ]_vars

\* C10: no message sent to a session contains a platform credential value
\* such as the YouTube API key.
C10_NoCredentialInMessages ==
  \A s \in Session : \A i \in ConfigEntries(s) :
    (config.apiKey # "" /\ "youtubeApiKey" \in DOMAIN inbox[s][i].msg.data) =>
      inbox[s][i].msg.data["youtubeApiKey"] # config.apiKey

----------------------------------------------------------------------------
\* Vocabulary of the store-transition properties

\* A connect frame naming youtube with a non-empty videoId, or twitch with
\* a non-empty channelId
ValidConnect(f) ==
  f.kind = "object" /\ f.type = "connect" /\ f.hasData /\ ValidConnectData(f.data)

OtherPlatform(p) == IF p = "youtube" THEN "twitch" ELSE "youtube"

DisplayName(p) == IF p = "youtube" THEN "YouTube" ELSE "Twitch"

\* Both platform entries are present in P
BothEntries(P) == {"youtube", "twitch"} \subseteq DOMAIN P

\* C11: after every valid connect call, made in any reachable state, the
\* named platform is enabled with the supplied identifier, its display name
\* is in the active-connections list, and the other platform's entry is as
\* it was before the call.
C11_ValidConnectEnables ==
  [][ (last'.op = "message" /\ ValidConnect(last'.frame)) =>
        LET d == last'.frame.data
            p == d["platform"]
            o == OtherPlatform(p)
            a == getActiveConnections(Platforms')
        IN /\ p \in DOMAIN Platforms'
           /\ Enabled(Platforms', p)
           /\ Platforms'[p][IdKey(p)] = d[IdKey(p)]
           /\ ~a.threw
           /\ DisplayName(p) \in SeqToSet(a.active)
           /\ (o \in DOMAIN Platforms =>
                 o \in DOMAIN Platforms' /\ Platforms'[o] = Platforms[o]) ]_vars

\* The same statement restricted to calls made while `platforms` has both
\* entries (the shape the store starts with).
C11_ValidConnectEnablesWhenShaped ==
  [][ (last'.op = "message" /\ ValidConnect(last'.frame) /\ BothEntries(Platforms)) =>
        LET d == last'.frame.data
            p == d["platform"]
            o == OtherPlatform(p)
            a == getActiveConnections(Platforms')
        IN /\ Enabled(Platforms', p)
           /\ Platforms'[p][IdKey(p)] = d[IdKey(p)]
           /\ ~a.threw
           /\ DisplayName(p) \in SeqToSet(a.active)
           /\ Platforms'[o] = Platforms[o] ]_vars

\* A config frame carrying a data object
ConfigMerge(f) == f.kind = "object" /\ f.type = "config" /\ f.hasData

\* C12: after merge({platforms: X}), get() yields a document whose
\* `platforms` equals X by value, whatever `platforms` was before.
C12_PlatformsReplacedWhole ==
  [][ (last'.op = "message" /\ SuppliesPlatforms(last'.frame)) =>
        SerializeDoc(getConfig(currentConfig'), platformsHeap')["platforms"]
          = last'.frame.data["platforms"] ]_vars

\* A merge supplied a `platforms` without a twitch entry and the document's
\* twitch entry, present from the start, is gone.
C12_Witness ==
  /\ last.op = "message"
  /\ SuppliesPlatforms(last.frame)
  /\ last.frame.data["platforms"] = OnlyYoutube
  /\ Platforms = OnlyYoutube
  /\ "twitch" \notin DOMAIN Document["platforms"]

\* C13: merge(partial) sets every top-level key present in `partial` to the
\* supplied value and leaves every key absent from it as it was; of two
\* merges that set the same key, the later one's value is the one read.
C13_MergeFrame ==
  [][ (last'.op = "message" /\ ConfigMerge(last'.frame)) =>
        LET u == last'.frame.data
        IN /\ DOMAIN Document' = DOMAIN Document \cup DOMAIN u
           /\ \A k \in DOMAIN u : Document'[k] = u[k]
           /\ \A k \in DOMAIN Document \ DOMAIN u : Document'[k] = Document[k] ]_vars

\* Two merges set `theme` one after the other; the second value is read and
\* a key neither of them named is still there.
C13_Witness ==
  /\ last.op = "message"
  /\ ConfigMerge(last.frame)
  /\ "theme" \in DOMAIN last.frame.data
  /\ last.frame.data["theme"] = "neon"
  /\ \E s \in Session : \E i \in ConfigEntries(s) :
       /\ i < Len(inbox[s])
       /\ inbox[s][i].via = "broadcast"
       /\ inbox[s][i].msg.data["theme"] = "minimal"
  /\ Document["theme"] = "neon"
  /\ Document["maxMessages"] = 6

\* A disconnect frame; the platform it names ("" when it names none, which
\* the handler passes on as null)
DisconnectFrame(f) == f.kind = "object" /\ f.type = "disconnect"

DisconnectTarget(f) ==
  IF f.hasData /\ Truthy(f.data, "platform") THEN f.data["platform"] ELSE ""

\* C14: for p = youtube, twitch or null and every reachable document,
\* disconnectPlatform(p) applied twice leaves the document as one
\* application does.
C14_DisconnectIdempotent ==
  \A p \in {"", "youtube", "twitch"} :
    LET once == disconnectPlatform(Platforms, p)
    IN disconnectPlatform(once.P, p).P = once.P

\* A disconnect has just cleared a platform that an earlier broadcast showed
\* enabled, in a document where a further disconnect is defined.
C14_Witness ==
  /\ last.op = "message"
  /\ DisconnectFrame(last.frame)
  /\ ~last.caught
  /\ BothEntries(Platforms)
  /\ ~Enabled(Platforms, "youtube")
  /\ \E s \in Session : \E i \in ConfigEntries(s) :
       /\ i < Len(inbox[s])
       /\ BothEntries(inbox[s][i].msg.data["platforms"])
       /\ Enabled(inbox[s][i].msg.data["platforms"], "youtube")

\* Entry p of P is present, disabled, and has the empty identifier
Cleared(P, p) ==
  /\ p \in DOMAIN P
  /\ "enabled" \in DOMAIN P[p] /\ P[p]["enabled"] = FALSE
  /\ IdKey(p) \in DOMAIN P[p] /\ P[p][IdKey(p)] = ""

\* C15: a disconnect naming no platform (disconnectPlatform(null)) leaves
\* both platforms with enabled = false and an empty identifier; a disconnect
\* naming youtube or twitch leaves that platform so and the other platform's
\* entry as it was.
C15_DisconnectClears ==
  [][ (last'.op = "message" /\ DisconnectFrame(last'.frame)) =>
        LET t == DisconnectTarget(last'.frame)
            o == OtherPlatform(t)
        IN IF t = ""
           THEN Cleared(Platforms', "youtube") /\ Cleared(Platforms', "twitch")
           ELSE t \in {"youtube", "twitch"} =>
                  /\ Cleared(Platforms', t)
                  /\ (o \in DOMAIN Platforms =>
                        o \in DOMAIN Platforms' /\ Platforms'[o] = Platforms[o]) ]_vars

\* The same statement restricted to calls made while `platforms` has both
\* entries.
C15_DisconnectClearsWhenShaped ==
  [][ (last'.op = "message" /\ DisconnectFrame(last'.frame)
         /\ BothEntries(Platforms)) =>
        LET t == DisconnectTarget(last'.frame)
            o == OtherPlatform(t)
        IN IF t = ""
           THEN Cleared(Platforms', "youtube") /\ Cleared(Platforms', "twitch")
           ELSE t \in {"youtube", "twitch"} =>
                  Cleared(Platforms', t) /\ Platforms'[o] = Platforms[o] ]_vars

\* A disconnect frame naming a platform other than youtube and twitch
UnknownDisconnect(f) ==
  DisconnectFrame(f) /\ DisconnectTarget(f) \notin {"", "youtube", "twitch"}

\* The handler run recorded in l threw before it reached broadcast
HandlerThrew(l) == l.caught /\ ~l.bthrew

\* C16: a connect request whose identifier is missing or empty or whose
\* platform name is unknown, and a disconnect request naming an unknown
\* platform, leave the document unchanged and raise no error.
C16_InvalidRequestsAreSilent ==
  [][ (last'.op = "message"
         /\ (InvalidConnect(last'.frame) \/ UnknownDisconnect(last'.frame))) =>
        Document' = Document /\ ~HandlerThrew(last') ]_vars

\* The same statement restricted to requests that carry a data object and
\* are made while `platforms` has both entries.
C16_InvalidRequestsAreSilentWhenShaped ==
  [][ (last'.op = "message"
         /\ (InvalidConnect(last'.frame) \/ UnknownDisconnect(last'.frame))
         /\ last'.frame.hasData /\ BothEntries(Platforms)) =>
        Document' = Document /\ ~HandlerThrew(last') ]_vars

\* Invalid requests leave the document unchanged in every case.
C16_InvalidRequestsKeepDocument ==
  [][ (last'.op = "message"
         /\ (InvalidConnect(last'.frame) \/ UnknownDisconnect(last'.frame))) =>
        Document' = Document ]_vars

\* The types handleMessage's switch has a case for
KnownTypes == {"config", "chat-message", "connect", "disconnect", "test-sound"}

\* C17: an inbound event whose type is not recognised causes no broadcast
\* and no unicast, lets no exception escape, and leaves the document and
\* the session set unchanged.
C17_UnknownTypeIgnored ==
  [][ (last'.op = "message" /\ last'.frame.kind = "object"
         /\ last'.frame.type \notin KnownTypes) =>
        /\ last'.out = <<>>
        /\ inbox' = inbox
        /\ ~last'.caught /\ ~last'.escaped
        /\ currentConfig' = currentConfig
        /\ Document' = Document
        /\ clients' = clients
        /\ readyState' = readyState ]_vars

\* An event of unknown type has been handled while two sessions were open
\* to receive a broadcast.
C17_Witness ==
  /\ last.op = "message"
  /\ last.frame.kind = "object"
  /\ last.frame.type = "bogus"
  /\ Cardinality(last.openBefore) = 2
  /\ \A s \in Session : ~sendThrows[s]

\* C18: an inbound payload that cannot be parsed is dropped: nothing is
\* broadcast, the document is unchanged, no exception escapes, and the
\* sending session stays registered and is not closed (its socket, like
\* every other, is left in the state it was in).
C18_UnparseableDropped ==
  [][ (last'.op = "message" /\ last'.frame.kind # "object") =>
        /\ last'.out = <<>>
        /\ inbox' = inbox
        /\ currentConfig' = currentConfig
        /\ Document' = Document
        /\ ~last'.escaped
        /\ clients' = clients
        /\ (last'.session \in SeqToSet(clients) =>
              last'.session \in SeqToSet(clients'))
        /\ readyState' = readyState ]_vars

\* An unparseable payload from one session has been handled while another
\* session was open to receive a broadcast.
C18_Witness ==
  /\ last.op = "message"
  /\ last.frame = Garbage
  /\ last.caught
  /\ Cardinality(last.openBefore) = 2
  /\ last.session \in OpenClients

\* A chat-message frame carrying a payload
ChatFrame(f) == f.kind = "object" /\ f.type = "chat-message" /\ f.hasData

\* The entry a session's inbox gains from broadcast(message)
Broadcasted(message) == [via |-> "broadcast", msg |-> message]

\* C19: a chat-message event is re-broadcast to every open session (every
\* one whose own send does not fail) with data identical to the inbound
\* payload; chat-message and test-sound events do not change the document.
C19_ChatRebroadcastVerbatim ==
  [][ (last'.op = "message" /\ last'.frame.kind = "object") =>
        /\ ChatFrame(last'.frame) =>
             \A s \in last'.openBefore :
               ~sendThrows[s] =>
                 inbox'[s] = Append(inbox[s],
                   Broadcasted(Message("chat-message", last'.frame.data)))
        /\ last'.frame.type \in {"chat-message", "test-sound"} =>
             currentConfig' = currentConfig /\ Document' = Document ]_vars

\* What holds of a chat-message whether or not a send throws: broadcast is
\* called with the inbound payload, each session the send succeeded on gets
\* exactly it, and the document is unchanged.
C19_ChatVerbatimWhereDelivered ==
  [][ (last'.op = "message" /\ last'.frame.kind = "object") =>
        /\ ChatFrame(last'.frame) =>
             /\ last'.out = <<Message("chat-message", last'.frame.data)>>
             /\ \A s \in Session :
                  inbox'[s] = IF s \in last'.delivered
                              THEN Append(inbox[s], Broadcasted(last'.out[1]))
                              ELSE inbox[s]
             /\ (~last'.bthrew => last'.delivered = last'.openBefore)
        /\ last'.frame.type \in {"chat-message", "test-sound"} =>
             currentConfig' = currentConfig /\ Document' = Document ]_vars

\* The messages session s received by broadcast, in the order received
BroadcastsOf(s) ==
  LET b == SelectSeq(inbox[s], LAMBDA e : e.via = "broadcast")
  IN [i \in 1..Len(b) |-> b[i].msg]

\* a can be obtained from b by deleting elements
RECURSIVE IsSubseq(_, _)
IsSubseq(a, b) ==
  IF a = <<>> THEN TRUE
  ELSE IF b = <<>> THEN FALSE
  ELSE IF Head(a).type = Head(b).type /\ Head(a).data = Head(b).data
       THEN IsSubseq(Tail(a), Tail(b))
       ELSE IsSubseq(a, Tail(b))

\* C20: broadcasts reach each session in the order they were issued: the
\* messages a session received by broadcast are, in order, a selection of
\* the messages issued, so where m1 was issued before m2 a session that
\* received both received m1 first, and two sessions see the messages they
\* both received in the same relative order.
C20_BroadcastOrder ==
  \A s \in Session : IsSubseq(BroadcastsOf(s), issued)

\* Two different messages were broadcast one after the other and two
\* sessions received both.
C20_Witness ==
  /\ Len(issued) = 2
  /\ issued[1].type # issued[2].type
  /\ \A s \in Session : Len(BroadcastsOf(s)) = 2

\* C21: a message broadcast while a session is closed or not yet registered
\* is never delivered to it later.  A session's inbox grows only by the
\* current-config unicast at its registration and by the message being
\* broadcast in the current step while it is registered and open; a session
\* not yet registered has received nothing.
C21_NoLateDelivery ==
  [][ \A s \in Session :
        /\ readyState'[s] = "NONE" => inbox'[s] = <<>>
        /\ \/ inbox'[s] = inbox[s]
           \/ /\ readyState[s] = "NONE" /\ readyState'[s] = "OPEN"
              /\ inbox'[s] = <<[via |-> "unicast",
                               msg |-> ConfigMessage(currentConfig, platformsHeap)]>>
           \/ /\ readyState[s] = "OPEN" /\ s \in SeqToSet(clients)
              /\ Len(issued') = Len(issued) + 1
              /\ inbox'[s] = Append(inbox[s], Broadcasted(issued'[Len(issued')])) ]_vars

\* A message was broadcast before session 2 registered and another after:
\* session 2 holds the config unicast and the later message only.
C21_Witness ==
  /\ Len(issued) = 2
  /\ issued[1].type # issued[2].type
  /\ Len(BroadcastsOf(1)) = 2
  /\ Len(inbox[2]) = 2
  /\ inbox[2][1].via = "unicast"
  /\ inbox[2][2] = Broadcasted(issued[2])

----------------------------------------------------------------------------
\* Vocabulary of the cache properties

\* The age of the entry cached for k
Age(k) == now - cache[k].timestamp

\* The last step was a lookup request that consulted the cache
Consulted(l) == l.op = "start" /\ l.outcome # "nokey"

\* C22: after set(k, v), get(k) returns v while the time elapsed since the
\* set is less than the TTL and returns absent once it is greater than or
\* equal to the TTL.
C22_FreshBelowTtl ==
  \A k \in DOMAIN cache :
    get(cache, now, k).value = IF Age(k) < ttl THEN cache[k].data ELSE Null

\* C22 as the code has it: get(k) returns v while the elapsed time is at
\* most the TTL (the instant of expiry included) and absent once it is
\* greater than the TTL.
C22_FreshUpToTtl ==
  \A k \in DOMAIN cache :
    get(cache, now, k).value = IF Age(k) <= ttl THEN cache[k].data ELSE Null

\* A lookup has just been answered from an entry whose age is exactly the
\* TTL.
C22_Witness ==
  /\ lastLookup.op = "start"
  /\ lastLookup.outcome = "hit"
  /\ lastLookup.key \in DOMAIN cache
  /\ Age(lastLookup.key) = ttl
  /\ lastLookup.response["videoId"] = cache[lastLookup.key].data["videoId"]

\* The entry cached for k exists and is not older than the TTL
Fresh(k) == k \in DOMAIN cache /\ Age(k) <= ttl

\* The Map without the entry for k
Without(c, k) ==
  [j \in DOMAIN c \ {k} |->
     [data |-> c[j].data, timestamp |-> c[j].timestamp,
      rank |-> Cardinality({i \in DOMAIN c \ {k} : c[i].rank <= c[j].rank})]]

\* C23: get(key) returns the cached payload exactly when an entry is
\* present and now - storedAt <= ttl; otherwise it returns absent and
\* removes the entry if there was one.  A miss and an expired entry look the
\* same to the caller (the route treats both as a miss), and an entry that
\* get found expired is not counted by stats().size until the key is set
\* again.
C23_GetContract ==
  /\ [](\A k \in Channel :
          LET g == get(cache, now, k)
          IN /\ g.value = IF Fresh(k) THEN cache[k].data ELSE Null
             /\ g.cache = IF Fresh(k) THEN cache ELSE Without(cache, k)
             /\ getStats(g.cache, now).size =
                  Cardinality(DOMAIN cache \ (IF Fresh(k) THEN {} ELSE {k})))
  /\ [][ Consulted(lastLookup') =>
           LET k == lastLookup'.key
           IN /\ lastLookup'.outcome = "hit" <=> Fresh(k)
              /\ Fresh(k) =>
                   /\ cache' = cache
                   /\ lastLookup'.response =
                        Spread(Spread([status |-> "success"], cache[k].data),
                               [fromCache |-> TRUE])
              /\ ~Fresh(k) =>
                   /\ cache' = Without(cache, k)
                   /\ lastLookup' =
                        [Looked("start", lastLookup'.req, k, "miss", TRUE,
                                EmptyObj)
                           EXCEPT !.removed = k \in DOMAIN cache] ]_vars
  /\ [][ \A k \in Channel :
           (k \notin DOMAIN cache /\ k \in DOMAIN cache') =>
             /\ lastLookup'.op = "finish"
             /\ lastLookup'.outcome = "live"
             /\ lastLookup'.key = k ]_vars

\* A lookup has just found an expired entry and removed it: it was answered
\* as a miss and the statistics no longer count the entry.
C23_Witness ==
  /\ lastLookup.op = "start"
  /\ lastLookup.outcome = "miss"
  /\ lastLookup.key \notin DOMAIN cache
  /\ lastLookup.removed
  /\ apiCalls[lastLookup.key].n = 2
  /\ getStats(cache, now).size = 0

\* The entry cached for k exists and is older than the TTL
Expired(k) == k \in DOMAIN cache /\ Age(k) > ttl

\* C24: an entry older than the TTL is treated as absent by every read
\* operation: none of get, has and getStats reports it as present, whether
\* or not a get for its key has occurred since it expired.
C24_ExpiredAbsentToEveryRead ==
  \A k \in Channel :
    Expired(k) =>
      /\ get(cache, now, k).value = Null
      /\ ~has(cache, k)
      /\ \A e \in SeqToSet(getStats(cache, now).entries) : e.key # k

\* C24 as the code has it: an entry older than the TTL is absent to get,
\* while has and getStats go on reporting it for as long as it stays in the
\* Map: size counts it, and entries lists it with the remaining life
\* Math.round((ttl - age) / 1000), which is never positive: zero while the
\* entry is expired by at most half a second, negative after that.
C24_ExpiredAbsentToGetOnly ==
  \A k \in Channel :
    Expired(k) =>
      /\ get(cache, now, k).value = Null
      /\ has(cache, k)
      /\ getStats(cache, now).size = Cardinality(DOMAIN cache)
      /\ \E e \in SeqToSet(getStats(cache, now).entries) :
           /\ e.key = k
           /\ e.expiresInSeconds = RoundSeconds(ttl - Age(k))
           /\ e.expiresInSeconds <= 0
           /\ e.expiresInSeconds = 0 <=> Age(k) - ttl <= 500

\* The statistics route has just answered while an entry that had expired
\* less than half a second before was in the Map, and listed it with a
\* remaining life of zero.
C24_Witness ==
  /\ lastLookup.op = "stats"
  /\ \E k \in Channel :
       /\ Expired(k)
       /\ Age(k) - ttl <= 500
       /\ \E e \in SeqToSet(lastLookup.response["cache"].entries) :
            e.key = k /\ e.expiresInSeconds = 0
  /\ lastLookup.response["cache"].size >= 1

\* C25: at most one external YouTube API call is made per channel within
\* any TTL window, for every sequence and interleaving of lookup requests
\* for that channel, requests arriving while an earlier lookup for the same
\* channel is still in flight included: two calls for one channel are at
\* least a TTL apart.
C25_OneCallPerTtlWindow ==
  [][ \A k \in DOMAIN apiCalls :
        apiCalls'[k].n > apiCalls[k].n =>
          apiCalls'[k].at - apiCalls[k].at >= ttl ]_vars

\* What the cache does ensure: the route makes an external call for a
\* channel only when get finds no entry for it that is at most a TTL old.
C25_CallOnlyWithoutFreshEntry ==
  [][ (lastLookup'.op = "start" /\ lastLookup'.called) =>
        /\ ~Fresh(lastLookup'.key)
        /\ apiCalls' = Called(apiCalls, lastLookup'.key, now) ]_vars

\* The steps of the lookup route
RouteStep(l) == l.op \in {"start", "finish"}

\* C26: the lookup route adds or overwrites a cache entry only after a
\* fresh successful external lookup that returned a live stream, and then
\* the entry is that result stamped with the current time: a cache hit, an
\* API error, a no-live-stream answer and a thrown exception never add or
\* overwrite an entry.
C26_WritesOnlyAfterLiveResult ==
  [][ RouteStep(lastLookup') =>
        \A k \in Channel :
          (k \in DOMAIN cache'
             /\ (\/ k \notin DOMAIN cache
                 \/ cache'[k].data # cache[k].data
                 \/ cache'[k].timestamp # cache[k].timestamp)) =>
            /\ lastLookup'.op = "finish"
            /\ lastLookup'.outcome = "live"
            /\ lastLookup'.key = k
            /\ requests[lastLookup'.req] = [pc |-> "fetching", key |-> k]
            /\ cache'[k].timestamp = now
            /\ lastLookup'.response =
                 Spread(Spread([status |-> "success"], cache'[k].data),
                        [fromCache |-> FALSE]) ]_vars

\* Two lookups for one channel were in flight together and both found a
\* live stream: the second answer has just overwritten the first's entry.
C26_Witness ==
  /\ lastLookup.op = "finish"
  /\ lastLookup.outcome = "live"
  /\ apiCalls[lastLookup.key].n = 2
  /\ \A r \in Request : requests[r].pc = "done"
  /\ lastLookup.key \in DOMAIN cache
  /\ cache[lastLookup.key].data["videoId"] = lastLookup.response["videoId"]

----------------------------------------------------------------------------
\* What the overlay pages show (Spec)

\* The number of elements of a queue made of the message with this id
Count(seq, id) ==
  Cardinality({i \in 1..Len(seq) : "id" \in DOMAIN seq[i] /\ seq[i]["id"] = id})

\* The ids of the chat messages the page on socket s has sent to the
\* server since it was loaded
RECURSIVE ForwardedBy(_)
ForwardedBy(s) ==
  (IF resumes[s] = 0 THEN <<>> ELSE ForwardedBy(resumes[s])) \o forwarded[s]

\* Every overlay's platform client has sent each message once at most
EachForwardsOnce ==
  \A s \in Session : \A i, j \in 1..Len(ForwardedBy(s)) :
    ForwardedBy(s)[i] = ForwardedBy(s)[j] => i = j

\* C27: with several overlays open, each running its own platform client
\* and each client sending every message it reads once, no overlay
\* displays a chat message more than once.
C27_DisplayedAtMostOnce ==
  EachForwardsOnce =>
    \A s \in OpenClients : \A found \in BOOLEAN :
      \A i \in 1..Len(Displayed(s, found)) :
        "id" \in DOMAIN Displayed(s, found)[i] =>
          Count(Displayed(s, found), Displayed(s, found)[i]["id"]) <= 1

\* C28: removeClient for a session that is not in the registry (never
\* registered, already removed, or dropped by closeAllConnections) leaves
\* the set and its size as they were and does not throw: so for every
\* session outside the registry in every reachable state, and at every
\* 'close' event whose socket is no longer registered.
C28_UnregisterAbsentIsNoOp ==
  /\ [](\A s \in Session :
          s \notin SeqToSet(clients) =>
            /\ removeClient(clients, s) = clients
            /\ Len(removeClient(clients, s)) = Len(clients))
  /\ [][(last'.op = "close" /\ last'.session \notin SeqToSet(clients)) =>
          (clients' = clients /\ ~last'.escaped)]_vars

\* A 'close' event arrived after shutdown emptied the registry, and another
\* session was never registered at all
C28_Witness ==
  /\ last.op = "close"
  /\ ~listening
  /\ clients = <<>>
  /\ readyState[last.session] = "CLOSED"
  /\ \E s \in Session : readyState[s] = "NONE"

\* C29: closeAllConnections calls close on every registered session, also
\* after a close that threw, lets nothing escape and leaves the registry
\* empty.
C29_CloseAllReachesEverySession ==
  [][last'.op = "shutdown" =>
       /\ last'.invoked = SeqToSet(clients)
       /\ ~last'.escaped
       /\ clients' = <<>>
       /\ Len(clients') = 0
       /\ \A s \in last'.delivered :
            readyState[s] = "OPEN" => readyState'[s] = "CLOSING"]_vars

\* Two sessions were registered, the close of the first one threw, and the
\* second was closed all the same
C29_Witness ==
  /\ last.op = "shutdown"
  /\ last.invoked = {1, 2}
  /\ last.bthrew /\ last.caught
  /\ last.delivered = {2}
  /\ readyState[2] = "CLOSING"
  /\ clients = <<>>

\* C30: in every reachable state isMultistreamActive() returns a value, and
\* that value is true exactly when both youtube and twitch have
\* enabled = true in the current document.
C30_MultistreamIffBothEnabled ==
  LET m == isMultistreamActive(Platforms)
  IN /\ ~m.threw
     /\ m.value <=> (/\ "youtube" \in DOMAIN Platforms
                     /\ "twitch" \in DOMAIN Platforms
                     /\ Enabled(Platforms, "youtube")
                     /\ Enabled(Platforms, "twitch"))

\* Where the document's platforms object has both entries, the statement
\* of C30 holds.
C30_MultistreamIffBothEnabledWhenShaped ==
  BothEntries(Platforms) =>
    LET m == isMultistreamActive(Platforms)
    IN /\ ~m.threw
       /\ m.value <=> (Enabled(Platforms, "youtube")
                       /\ Enabled(Platforms, "twitch"))

\* Both platforms are enabled at once and isMultistreamActive() is true
C30_BothEnabledReached ==
  /\ BothEntries(Platforms)
  /\ Enabled(Platforms, "youtube") /\ Enabled(Platforms, "twitch")
  /\ isMultistreamActive(Platforms).value

----------------------------------------------------------------------------
\* The YouTube client (YouTubeSpec)

\* A poll timer is pending only while no request of the client is in
\* flight, so the client has at most one request in flight.
YtOneRequestAtATime ==
  \A id \in DOMAIN yt.timers :
     yt.timers[id] = "timeout" => yt.pc \in {"idle"}

\* The step that has just run forwarded a message, scheduled a poll, marked
\* the client connected or started the simulation
YtActed(c) ==
  c.did.sent > 0 \/ c.did.scheduled \/ c.did.connected \/ c.did.simulation

\* C31: once the page has called disconnect(), no later step of the client
\* forwards a chat message, schedules a poll, marks the client connected or
\* starts the simulation, whatever request was in flight at the call.
C31_QuietAfterDisconnect ==
  [][yt.called => ~YtActed(yt')]_vars

\* Where C31 does hold: a client with no request in flight at disconnect()
\* and none started afterwards stays quiet.
C31_QuietWhenNothingInFlight ==
  [][(yt.called /\ yt.pc = "idle" /\ yt'.did.op # "simulate")
       => ~YtActed(yt')]_vars

\* A liveChat/messages request of a client the page has not disconnected
\* is answered in this step
YtFetchCompletes ==
  ~yt.called /\ yt.pc = "fetchMessages" /\ yt'.did.op = "fetchMessages"

\* C32: polling never silently stops: after every completed fetchMessages
\* of a client the page has not disconnected, whatever the answer, the next
\* poll is scheduled or the client has switched to simulation.
C32_PollingNeverSilentlyStops ==
  [][YtFetchCompletes => (yt'.did.scheduled \/ yt'.did.simulation)]_vars

\* Where C32 does hold: every answer but a non-OK status below 500 other
\* than 429 leaves a poll scheduled or the simulation running, and then the
\* handle the client holds is that of a pending timer.
C32_PollingGoesOnUnlessOtherStatus ==
  [][YtFetchCompletes =>
       \/ yt'.pollingInterval \in DOMAIN yt'.timers
            /\ (yt'.did.scheduled \/ yt'.did.simulation)
       \/ yt'.timers = yt.timers /\ ~YtActed(yt')
            /\ yt'.rateLimitRetryCount = yt.rateLimitRetryCount]_vars

\* A liveChat/messages request is answered in this step with HTTP 429
YtRateLimited ==
  yt.pc = "fetchMessages" /\ yt'.did.op = "fetchMessages"
    /\ yt'.streak = yt.streak + 1

\* C33: at most maxRetries consecutive retries on HTTP 429: each of the
\* first five 429 answers with no successful fetch in between schedules one
\* retry, the sixth disconnects the client and starts the simulation with
\* no retry, and a successful fetch starts the count again.
C33_AtMostMaxRetries ==
  [][YtRateLimited =>
       /\ yt'.streak <= maxRetries + 1
       /\ yt'.streak <= maxRetries =>
            /\ yt'.did.scheduled /\ ~yt'.did.simulation
            /\ yt'.pollingInterval \in DOMAIN yt'.timers
            /\ yt'.timers[yt'.pollingInterval] = "timeout"
       /\ yt'.streak = maxRetries + 1 =>
            /\ ~yt'.did.scheduled /\ yt'.did.simulation
            /\ yt'.simulationMode /\ yt'.liveChatId = ""
            /\ \A id \in DOMAIN yt'.timers : yt'.timers[id] = "interval"]_vars

\* What does hold: the same for a client on which the page has not called
\* disconnect(), the call that sets rateLimitRetryCount back to 0 without a
\* successful fetch.
C33_AtMostMaxRetriesUndisturbed ==
  [][(~yt.called /\ YtRateLimited) =>
       /\ yt'.streak <= maxRetries + 1
       /\ yt'.streak <= maxRetries =>
            /\ yt'.did.scheduled /\ ~yt'.did.simulation
            /\ yt'.pollingInterval \in DOMAIN yt'.timers
            /\ yt'.timers[yt'.pollingInterval] = "timeout"
       /\ yt'.streak = maxRetries + 1 =>
            /\ ~yt'.did.scheduled /\ yt'.did.simulation
            /\ yt'.simulationMode /\ yt'.liveChatId = ""
            /\ \A id \in DOMAIN yt'.timers : yt'.timers[id] = "interval"]_vars

\* The sixth 429 in a row has just been answered, after a successful fetch
\* earlier in the run
C33_SixthInARow ==
  /\ yt.did.op = "fetchMessages" /\ ~yt.called
  /\ yt.streak = maxRetries + 1 /\ yt.did.simulation
  /\ yt.timerSeq > maxRetries + 1

----------------------------------------------------------------------------
\* The Twitch client (TwitchSpec)

\* C34: after the page has called disconnect(), the client opens no new
\* IRC connection: a close event schedules no reconnect, and a reconnect
\* timer that was already pending does nothing when it fires.
C34_NoConnectionAfterDisconnect ==
  [][tw.called =>
       /\ ~tw'.did.opened /\ ~tw'.did.scheduled
       /\ tw'.socketSeq = tw.socketSeq
       /\ tw'.timers <= tw.timers]_vars

\* A reconnect timer pending at disconnect() has just fired
C34_PendingTimerFired ==
  tw.called /\ tw.did.op = "timer"

\* The close event caused by disconnect() has just been delivered
C34_CloseAfterDisconnect ==
  tw.called /\ tw.did.op = "close" /\ tw.reconnectAttempts = 0

\* C35: reconnectAttempts never exceeds maxReconnectAttempts: a close
\* event that follows ten others with no open event in between schedules no
\* reconnect, and every open event sets the counter to 0.
C35_ReconnectAttemptsBounded ==
  /\ [](tw.reconnectAttempts <= maxReconnectAttempts)
  /\ [][/\ (tw'.did.op = "close" /\ tw'.closes > maxReconnectAttempts)
             => (~tw'.did.scheduled /\ tw'.timers = tw.timers)
        /\ tw'.did.op = "open" => tw'.reconnectAttempts = 0]_vars

\* The eleventh close event in a row has just been delivered to a client
\* the page has not disconnected
C35_EleventhClose ==
  /\ ~tw.called /\ tw.did.op = "close"
  /\ tw.closes = maxReconnectAttempts + 1
  /\ tw.reconnectAttempts = maxReconnectAttempts

----------------------------------------------------------------------------
\* The overlay page's connection to the server (OverlaySocketSpec)

\* C36: after the page has called disconnect(), and until it calls
\* connect() again, no new connection is opened.
C36_NoReconnectAfterDisconnect ==
  [][(ows.called /\ ows'.did.op # "connect") => ~ows'.did.opened]_vars

\* What does hold: after disconnect() nothing is opened before the close
\* event of the socket it closed, and a close always arms one reconnect.
C36_ReconnectFollowsEveryClose ==
  [][/\ ows'.did.op = "close" => ows'.timers = ows.timers + 1
     /\ (ows'.did.op # "connect" /\ ows'.did.opened) => ows.timers > 0]_vars

----------------------------------------------------------------------------
\* The overlay page's platform clients (PlatformClientsSpec)

\* C37: processing the same `config` message twice in a row does what
\* processing it once does: the second processing disconnects no platform
\* client and creates none, whatever the identifiers.
C37_SecondConfigChangesNothing ==
  [][(page.did.op = "config" /\ page'.did.op = "config"
        /\ page'.did.doc = page.did.doc)
       => (page'.did.created = {} /\ page'.did.disconnected = {})]_vars

\* Where C37 does hold: channel names that are already lower case.
C37_SecondConfigChangesNothingLowerCase ==
  [][(page.did.op = "config" /\ page'.did.op = "config"
        /\ page'.did.doc = page.did.doc
        /\ toLowerCase(page.did.doc.platforms.twitch.id)
             = page.did.doc.platforms.twitch.id)
       => (page'.did.created = {} /\ page'.did.disconnected = {})]_vars

\* The client the page holds for a platform is what the entry e of the
\* document asks for; target is the identifier the client has
ClientMatches(e, isNull, target, id) ==
  e.present =>
    /\ ~e.enabled => isNull
    /\ (e.enabled /\ e.id # "") => (~isNull /\ target = id)

ClientsMatch(P) ==
  /\ ClientMatches(P.youtube, page.youtubeClient.isNull,
                   IF page.youtubeClient.isNull THEN ""
                   ELSE page.youtubeClient.videoId, P.youtube.id)
  /\ ClientMatches(P.twitch, page.twitchClient.isNull,
                   IF page.twitchClient.isNull THEN ""
                   ELSE page.twitchClient.channelName,
                   toLowerCase(P.twitch.id))

\* C38: after the page has processed a `config` message, its platform
\* clients match the document: none for a platform whose enabled is false,
\* exactly one, for the document's identifier, for a platform that is
\* enabled with a non-empty identifier.
C38_ClientsMatchDocument ==
  (page.did.op = "config" /\ page.did.doc.hasPlatforms)
    => ClientsMatch(page.did.doc.platforms)

\* Where C38 does hold: documents whose platforms object has both entries.
C38_ClientsMatchShapedDocument ==
  (page.did.op = "config" /\ page.did.doc.hasPlatforms
     /\ ~page.did.threw
     /\ page.did.doc.platforms.youtube.present
     /\ page.did.doc.platforms.twitch.present)
    => ClientsMatch(page.did.doc.platforms)

----------------------------------------------------------------------------
\* The overlay page's display queue (MessageQueueSpec)

\* MessageQueue.initialize(): the document has a #chat-container or not
MqInitialize ==
  /\ ~mq.container
  /\ \E found \in BOOLEAN :
       mq' = [mq EXCEPT !.container = found, !.did = "initialize"]
  /\ UNCHANGED notMq

\* A chat message reaches handleChatMessage: elements are numbered as they
\* come
MqAddMessage ==
  /\ Len(mq.arrived) < MaxArrivals
  /\ mq' = pageHandleChatMessage(ThePage, Len(mq.arrived) + 1).mq
  /\ UNCHANGED notMq

\* MessageQueue.clearAll(), a function of the exported interface
MqClearAll ==
  /\ mq' = clearAll(mq)
  /\ UNCHANGED notMq

\* The `config` messages that carry settings only
SettingsOnly == {d \in ConfigDocs : ~d.hasPlatforms}

MessageQueueNext ==
  \/ MqInitialize
  \/ MqAddMessage
  \/ MqClearAll
  \/ \E doc \in SettingsOnly : PageConfig(doc)

MessageQueueSpec == PageInit /\ [][MessageQueueNext]_vars

\* The last n elements of seq, in order
LastN(seq, n) == SubSeq(seq, Len(seq) - n + 1, Len(seq))

Smaller(a, b) == IF a < b THEN a ELSE b

\* C39: after every addMessage, with the container initialised and
\* maxMessages a natural number, the queue holds at most maxMessages
\* elements, and they are the most recently added ones in arrival order
\* (the oldest are the ones evicted).
C39_QueueHoldsMostRecent ==
  [][(mq'.did = "addMessage" /\ Len(mq'.arrived) = Len(mq.arrived) + 1) =>
       /\ Len(mq'.queue) <= page'.config["maxMessages"]
       /\ Len(mq'.queue) =
            Smaller(page'.config["maxMessages"], Len(mq.queue) + 1)
       /\ mq'.queue = LastN(mq'.arrived, Len(mq'.queue))]_vars

\* An addMessage has just evicted more than one element at once, maxMessages
\* having been lowered to 1 while the queue held several
C39_EvictedSeveral ==
  /\ mq.did = "addMessage" /\ page.config["maxMessages"] = 1
  /\ Len(mq.arrived) >= 4 /\ mq.queue = <<Len(mq.arrived)>>
  /\ mq.evicted >= 2
  /\ mq.container

----------------------------------------------------------------------------
\* Every open session holds the current document (Spec)

\* The positions of the `config` messages in what a socket was sent
ConfigsIn(box) == {i \in 1..Len(box) : box[i].msg.type = "config"}

\* The document of the most recent `config` message a socket was sent
LastConfigIn(box) ==
  box[CHOOSE i \in ConfigsIn(box) : \A j \in ConfigsIn(box) : j <= i].msg.data

CurrentDocument == SerializeDoc(getConfig(currentConfig), platformsHeap)

NoSendFails == \A t \in Session : ~sendThrows[t]

\* C40: between two handler runs, no send having failed, every session that
\* is registered and open has been sent a `config` message, and the most
\* recent one carries the current document.
C40_OpenSessionsHoldCurrentDocument ==
  NoSendFails =>
    \A s \in SeqToSet(clients) :
      readyState[s] = "OPEN" =>
        /\ ConfigsIn(inbox[s]) # {}
        /\ LastConfigIn(inbox[s]) = CurrentDocument

\* Where C40 does hold: while the document's platforms object has both
\* entries.
C40_OpenSessionsHoldShapedDocument ==
  (NoSendFails /\ BothEntries(Platforms)) =>
    \A s \in SeqToSet(clients) :
      readyState[s] = "OPEN" =>
        /\ ConfigsIn(inbox[s]) # {}
        /\ LastConfigIn(inbox[s]) = CurrentDocument

====
